---- MODULE Spec2Model ----
(***************************************************************************)
(* Bitset encoding of Northwind facts: the 4096-bit codec, the row         *)
(* bit-profile northwind_data_v1, the predicate compiler                   *)
(* bit_conditions_for, and the ingest / reset / compare operations on the  *)
(* key-value store.                                                        *)
(*                                                                         *)
(* A Python int used as a bit vector is modelled by the set of its set     *)
(* bit positions (x |= 1 << b is set union); a non-negative integer and    *)
(* that set determine each other.  A Python str is a sequence of           *)
(* one-character strings.                                                  *)
(***************************************************************************)
EXTENDS Integers, Sequences, FiniteSets, TLC

VARIABLES
    \* --- codec (schema_meta.encode_flags_bin / redis_bits.decode_flags_bin)
    cBits,      \* the iterable handed to encode_flags_bin
    cBuf,       \* its result: a 512-byte buffer or an ApiError; at "resized"
                \* the buffer of another length handed to decode_flags_bin
    cOut,       \* result of decode_flags_bin on cBuf
    cPc,        \* "start" | "encoded" | "decoded" | "resized"
    cInt,       \* result of _int_from_bits on cBits
    \* --- predicate compiler and row encoders (northwind_data_bits.py)
    qTable,     \* table token
    qConds,     \* list of conditions
    qRes,       \* result of bit_conditions_for(qTable, qConds)
    rRow,       \* a row of qTable
    rBits,      \* result of encode_row_bits(qTable, rRow)
    \* --- store, source and operations on them (northwind_data.py)
    src,        \* the relational source: table token -> list of rows
    store,      \* key -> stored value or Absent
    reg,        \* members of the data_bits registry set
    last,       \* call and result of the last operation
    log,        \* the last operation that wrote to the store
    \* --- element keys and importer registries (northwind_compare.py)
    mKeys,      \* keys present in the store
    mImportReg, \* members of the import registry set ("table:id")
    mSchemaReg, \* members of the schema_meta registry set (element names)
    mWrote,     \* every key the importer has written so far
    mLast,      \* call and result of the last operation
    \* --- order totals report (northwind_compare.report_order_totals_sample)
    tSrc,       \* source OrderDetails rows
    tStore,     \* store side: object name -> hash fields, per-order index
    tRes,       \* result of report_order_totals_sample
    \* --- schema profile encoders and decoders (schema_meta.py)
    sCall,      \* the call: function and arguments
    sBits,      \* the bit list it returned
    sMeta       \* the decoded metadata of sBits

codecVars == <<cBits, cBuf, cOut, cPc, cInt>>
metaVars == <<mKeys, mImportReg, mSchemaReg, mWrote, mLast>>
totalsVars == <<tSrc, tStore, tRes>>
schemaVars == <<sCall, sBits, sMeta>>
auxVars == <<metaVars, totalsVars, schemaVars>>
compileVars == <<qTable, qConds, qRes, rRow, rBits>>
storeVars == <<src, store, reg, last, log>>
vars == <<codecVars, compileVars, storeVars, auxVars>>

\* Results of operations: a returned value, a raised ApiError (code and
\* message), another raised exception, or nothing yet.
Ok(v) == [ok |-> TRUE, val |-> v]

ApiError(code, message) == [ok |-> FALSE, error |-> code, message |-> message]

Raised(exc) == [ok |-> FALSE, error |-> exc, message |-> "exception"]

NotRun == [ok |-> FALSE, error |-> "NOT_RUN", message |-> ""]

\* the parts of the state a specification does not use stay as they are here
CodecIdle ==
    cBits = <<>> /\ cBuf = NotRun /\ cOut = NotRun /\ cPc = "idle" /\ cInt = NotRun

CompileIdle ==
    qTable = "" /\ qConds = <<>> /\ qRes = NotRun /\ rRow = <<>> /\ rBits = NotRun

StoreIdle ==
    src = <<>> /\ store = <<>> /\ reg = {} /\ last = NotRun /\ log = NotRun

MetaIdle ==
    /\ mKeys = {} /\ mImportReg = {} /\ mSchemaReg = {} /\ mWrote = {}
    /\ mLast = NotRun

TotalsIdle == tSrc = <<>> /\ tStore = <<>> /\ tRes = NotRun

SchemaIdle == sCall = NotRun /\ sBits = NotRun /\ sMeta = NotRun

AuxIdle == MetaIdle /\ TotalsIdle /\ SchemaIdle

RECURSIVE Pow2(_)
Pow2(n) == IF n = 0 THEN 1 ELSE 2 * Pow2(n - 1)

\* byte & (1 << b) != 0
BitAnd1(byte, b) == (byte \div Pow2(b)) % 2 = 1

\* byte | (1 << b)
BitOr1(byte, b) == IF BitAnd1(byte, b) THEN byte ELSE byte + Pow2(b)

Range(s) == {s[i] : i \in DOMAIN s}

(***************************************************************************)
(* Bit-vector codec                                                        *)
(***************************************************************************)
FLAGS_LEN == 512
MAX_BIT == 4095

\* bytearray(512); Python index i is sequence index i + 1
ZeroBuf == [i \in 1..FLAGS_LEN |-> 0]

\* the mutant indexes the buffer from the front instead of from the end
encode_flags_bin_set_bit_front(buf, b) ==
    LET byte_from_end == b \div 8
        i == byte_from_end
    IN  [buf EXCEPT ![i + 1] = BitOr1(@, b % 8)]

\* loop body of encode_flags_bin for a valid bit b
encode_flags_bin_set_bit(buf, b) ==
    LET byte_from_end == b \div 8
        i == (FLAGS_LEN - 1) - byte_from_end
    IN  [buf EXCEPT ![i + 1] = BitOr1(@, b % 8)]

\* the mutant skips a bit outside 0..4095 instead of raising
RECURSIVE encode_flags_bin_loop_skip(_, _, _)
encode_flags_bin_loop_skip(buf, bits, k) ==
    IF k > Len(bits) THEN Ok(buf)
    ELSE IF bits[k] < 0 \/ bits[k] > MAX_BIT
         THEN encode_flags_bin_loop_skip(buf, bits, k + 1)
         ELSE encode_flags_bin_loop_skip(encode_flags_bin_set_bit(buf, bits[k]), bits, k + 1)

RECURSIVE encode_flags_bin_loop(_, _, _)
encode_flags_bin_loop(buf, bits, k) ==
    IF k > Len(bits) THEN Ok(buf)
    ELSE IF bits[k] < 0 \/ bits[k] > MAX_BIT
         THEN ApiError("INVALID_BIT", "bit must be 0..4095")
         ELSE encode_flags_bin_loop(encode_flags_bin_set_bit(buf, bits[k]), bits, k + 1)

encode_flags_bin(bits) == encode_flags_bin_loop(ZeroBuf, bits, 1)

RECURSIVE decode_byte(_, _, _, _)
decode_byte(byte, base, b, bits) ==
    IF b > 7 THEN bits
    ELSE decode_byte(byte, base, b + 1,
                     IF BitAnd1(byte, b) THEN Append(bits, base + b) ELSE bits)

\* the bits appended while i runs from hi down to lo in
\* `for i in range(511, -1, -1)` (the range is halved to keep the
\* evaluation shallow; the appended bits are the same, in the same order)
RECURSIVE decode_flags_bin_loop(_, _, _)
decode_flags_bin_loop(flags_bin, hi, lo) ==
    IF hi = lo
    THEN LET byte == flags_bin[hi + 1]
         IN  IF byte = 0 THEN <<>>
             ELSE decode_byte(byte, ((FLAGS_LEN - 1) - hi) * 8, 0, <<>>)
    ELSE LET mid == (hi + lo) \div 2
         IN  decode_flags_bin_loop(flags_bin, hi, mid + 1)
                 \o decode_flags_bin_loop(flags_bin, mid, lo)

\* the mutant only refuses a buffer that is too short
decode_flags_bin_min(flags_bin) ==
    IF Len(flags_bin) < 512
    THEN ApiError("INVALID_FLAGS", "flags_bin must be 512 bytes")
    ELSE Ok(decode_flags_bin_loop(flags_bin, 511, 0))

decode_flags_bin(flags_bin) ==
    IF Len(flags_bin) /= 512
    THEN ApiError("INVALID_FLAGS", "flags_bin must be 512 bytes")
    ELSE Ok(decode_flags_bin_loop(flags_bin, 511, 0))

\* bounds of the codec inputs
MaxBitsLen == 3
BitPool == {-1, 0, 7, 8, 258, 4088, 4095, 4096}

SeqsUpTo(S, n) == UNION {[1..k -> S] : k \in 0..n}

CodecInit ==
    /\ cBits \in SeqsUpTo(BitPool, MaxBitsLen)
    /\ cBuf = NotRun
    /\ cOut = NotRun
    /\ cPc = "start"
    /\ cInt = NotRun
    /\ CompileIdle
    /\ StoreIdle
    /\ AuxIdle

Encode ==
    /\ cPc = "start"
    /\ cBuf' = encode_flags_bin(cBits)
    /\ cPc' = "encoded"
    /\ UNCHANGED <<cBits, cOut, cInt, compileVars, storeVars, auxVars>>

\* buffers of a length other than 512: the last n bytes of an encoded
\* buffer, or the buffer followed by zero bytes
ResizedLens == {0, 1, 511, 513, 1024}

Resize(buf, n) ==
    IF n <= Len(buf) THEN SubSeq(buf, Len(buf) - n + 1, Len(buf))
    ELSE buf \o [i \in 1..(n - Len(buf)) |-> 0]

DecodeResized ==
    /\ cPc = "encoded"
    /\ cBuf.ok
    /\ \E n \in ResizedLens :
          /\ cBuf' = Ok(Resize(cBuf.val, n))
          /\ cOut' = decode_flags_bin(Resize(cBuf.val, n))
    /\ cPc' = "resized"
    /\ UNCHANGED <<cBits, cInt, compileVars, storeVars, auxVars>>

Decode ==
    /\ cPc = "encoded"
    /\ cBuf.ok
    /\ cOut' = decode_flags_bin(cBuf.val)
    /\ cPc' = "decoded"
    /\ UNCHANGED <<cBits, cBuf, cInt, compileVars, storeVars, auxVars>>

(***************************************************************************)
(* Python values reaching the row encoders and the predicate compiler:     *)
(* None, a str (sequence of characters) or a number (int, float, Decimal), *)
(* held exactly as coefficient c and number of decimals e: c * 10^-e.      *)
(***************************************************************************)
NoneV == [t |-> "none"]
Str(s) == [t |-> "str", s |-> s]
Dec(c, e) == [c |-> c, e |-> e]
Num(c, e) == [t |-> "num", d |-> Dec(c, e)]
IntV(n) == Num(n, 0)

RECURSIVE Pow10(_)
Pow10(n) == IF n = 0 THEN 1 ELSE 10 * Pow10(n - 1)

\* exact comparisons of decimal.Decimal
DecLt(a, b) == a.c * Pow10(b.e) < b.c * Pow10(a.e)
DecLe(a, b) == a.c * Pow10(b.e) <= b.c * Pow10(a.e)
DecEq(a, b) == a.c * Pow10(b.e) = b.c * Pow10(a.e)
DecIsInt(a) == a.c % Pow10(a.e) = 0
DecToInt(a) == a.c \div Pow10(a.e)

\* the SQL meaning of  p op v  on exact decimals
DecSat(p, op, v) ==
    CASE op = "=" -> DecEq(p, v)
      [] op = "<" -> DecLt(p, v)
      [] op = "<=" -> DecLe(p, v)
      [] op = ">" -> DecLt(v, p)
      [] op = ">=" -> DecLe(v, p)

Digits == <<"0", "1", "2", "3", "4", "5", "6", "7", "8", "9">>
IsDigit(ch) == \E i \in 1..10 : Digits[i] = ch
DigitVal(ch) == (CHOOSE i \in 1..10 : Digits[i] = ch) - 1

LowerAlpha == <<"a", "b", "c", "d", "e", "f", "g", "h", "i", "j", "k", "l", "m",
                "n", "o", "p", "q", "r", "s", "t", "u", "v", "w", "x", "y", "z", "é">>
UpperAlpha == <<"A", "B", "C", "D", "E", "F", "G", "H", "I", "J", "K", "L", "M",
                "N", "O", "P", "Q", "R", "S", "T", "U", "V", "W", "X", "Y", "Z", "É">>

\* str.upper(), character by character
UpperChar(ch) ==
    IF \E i \in 1..Len(LowerAlpha) : LowerAlpha[i] = ch
    THEN UpperAlpha[CHOOSE i \in 1..Len(LowerAlpha) : LowerAlpha[i] = ch]
    ELSE ch

Upper(s) == [i \in 1..Len(s) |-> UpperChar(s[i])]

IsSpace(ch) == ch = " "

\* str.split(): the maximal runs of non-whitespace characters
RECURSIVE SplitWords(_, _, _, _)
SplitWords(s, i, cur, words) ==
    IF i > Len(s)
    THEN IF cur = <<>> THEN words ELSE Append(words, cur)
    ELSE IF IsSpace(s[i])
         THEN SplitWords(s, i + 1, <<>>, IF cur = <<>> THEN words ELSE Append(words, cur))
         ELSE SplitWords(s, i + 1, Append(cur, s[i]), words)

\* " ".join(words)
RECURSIVE JoinWords(_, _)
JoinWords(words, i) ==
    IF i > Len(words) THEN <<>>
    ELSE IF i = Len(words) THEN words[i]
         ELSE words[i] \o <<" ">> \o JoinWords(words, i + 1)

\* str.strip()
RECURSIVE LStrip(_)
LStrip(s) == IF s /= <<>> /\ IsSpace(Head(s)) THEN LStrip(Tail(s)) ELSE s

RECURSIVE RStrip(_)
RStrip(s) == IF s /= <<>> /\ IsSpace(s[Len(s)]) THEN RStrip(SubSeq(s, 1, Len(s) - 1)) ELSE s

Strip(s) == RStrip(LStrip(s))

\* str(int) for a non-negative int
RECURSIVE NatToStr(_)
NatToStr(n) == IF n < 10 THEN <<Digits[n + 1]>> ELSE NatToStr(n \div 10) \o <<Digits[(n % 10) + 1]>>

RECURSIVE PadFrac(_, _)
PadFrac(s, e) == IF Len(s) >= e THEN s ELSE PadFrac(<<"0">> \o s, e)

\* str(v) of a value: the text itself, or the numeral of a number
ToStr(v) ==
    IF v.t = "str" THEN v.s
    ELSE LET a == IF v.d.c < 0 THEN -v.d.c ELSE v.d.c
             sign == IF v.d.c < 0 THEN <<"-">> ELSE <<>>
         IN  IF v.d.e = 0 THEN sign \o NatToStr(a)
             ELSE sign \o NatToStr(a \div Pow10(v.d.e)) \o <<".">>
                       \o PadFrac(NatToStr(a % Pow10(v.d.e)), v.d.e)

_norm(v) ==
    IF v.t = "none" THEN <<>>
    ELSE LET out == Strip(ToStr(v))
         IN  JoinWords(SplitWords(out, 1, <<>>, <<>>), 1)

_norm_upper(v) == Upper(_norm(v))

\* value of a run of digits
RECURSIVE DigitsVal(_, _)
DigitsVal(s, acc) == IF s = <<>> THEN acc ELSE DigitsVal(Tail(s), 10 * acc + DigitVal(Head(s)))

AllDigits(s) == s /= <<>> /\ \A i \in 1..Len(s) : IsDigit(s[i])

Unsigned(s) == IF s /= <<>> /\ Head(s) \in {"-", "+"} THEN Tail(s) ELSE s
SignOf(s) == IF s /= <<>> /\ Head(s) = "-" THEN -1 ELSE 1

\* int(st, 10): {} when it raises ValueError
IntOfStr(st) ==
    IF AllDigits(Unsigned(st)) THEN {SignOf(st) * DigitsVal(Unsigned(st), 0)} ELSE {}

DotAt(s) == {i \in 1..Len(s) : s[i] = "."}

\* Decimal(st) for plain numerals [sign] digits [. digits]: {} when it
\* raises InvalidOperation
DecOfStr(st) ==
    LET u == Unsigned(st)
    IN  IF AllDigits(u) THEN {Dec(SignOf(st) * DigitsVal(u, 0), 0)}
        ELSE IF Cardinality(DotAt(u)) = 1
             THEN LET k == CHOOSE i \in DotAt(u) : TRUE
                      ip == SubSeq(u, 1, k - 1)
                      fp == SubSeq(u, k + 1, Len(u))
                  IN  IF (ip = <<>> \/ AllDigits(ip)) /\ (fp = <<>> \/ AllDigits(fp))
                         /\ ~(ip = <<>> /\ fp = <<>>)
                      THEN {Dec(SignOf(st) * DigitsVal(ip \o fp, 0), Len(fp))}
                      ELSE {}
             ELSE {}

\* Optional results are sets with at most one element ({} is None).
_parse_int(v) ==
    IF v.t = "none" THEN {}
    ELSE IF v.t = "num" /\ DecIsInt(v.d) THEN {DecToInt(v.d)}
    ELSE LET st == _norm(v)
         IN  IF st = <<>> THEN {} ELSE IntOfStr(st)

_parse_decimal(v) ==
    IF v.t = "none" THEN {}
    ELSE IF v.t = "num" THEN {v.d}
    ELSE LET st == _norm(v)
         IN  IF st = <<>> THEN {} ELSE DecOfStr(st)

(***************************************************************************)
(* Row bit-profile northwind_data_v1 (northwind_data_bits.py)              *)
(***************************************************************************)
SUPPORTED_TABLE_TOKENS == {"Customers", "Orders", "OrderDetails", "Products", "Categories"}

\* the mutant adds 1 << b instead of or-ing it: a bit given twice carries
\* into the next position
RECURSIVE AddBit(_, _)
AddBit(x, b) == IF b \in x THEN AddBit(x \ {b}, b + 1) ELSE x \cup {b}

RECURSIVE _int_from_bits_loop_add(_, _, _)
_int_from_bits_loop_add(x, bits, k) ==
    IF k > Len(bits) THEN Ok(x)
    ELSE IF bits[k] < 0 \/ bits[k] > 4095
         THEN ApiError("INVALID_BIT", "bit must be 0..4095")
         ELSE _int_from_bits_loop_add(AddBit(x, bits[k]), bits, k + 1)

\* x = 0; for b in bits: x |= 1 << b   (x is the set of its set bits)
RECURSIVE _int_from_bits_loop(_, _, _)
_int_from_bits_loop(x, bits, k) ==
    IF k > Len(bits) THEN Ok(x)
    ELSE IF bits[k] < 0 \/ bits[k] > 4095
         THEN ApiError("INVALID_BIT", "bit must be 0..4095")
         ELSE _int_from_bits_loop(x \cup {bits[k]}, bits, k + 1)

_int_from_bits(bits) == _int_from_bits_loop({}, bits, 1)

_mask_from_bits(bits) == _int_from_bits(bits)

\* the integer form of the codec input
IntFromBits ==
    /\ cPc /= "idle"
    /\ cInt = NotRun
    /\ cInt' = _int_from_bits(cBits)
    /\ UNCHANGED <<cBits, cBuf, cOut, cPc, compileVars, storeVars, auxVars>>

\* split s at every occurrence of the character sep
RECURSIVE SplitOn(_, _, _, _, _)
SplitOn(s, sep, i, cur, parts) ==
    IF i > Len(s) THEN Append(parts, cur)
    ELSE IF s[i] = sep
         THEN SplitOn(s, sep, i + 1, <<>>, Append(parts, cur))
         ELSE SplitOn(s, sep, i + 1, Append(cur, s[i]), parts)

Field12(s) == Len(s) \in {1, 2} /\ AllDigits(s)

IsLeap(y) == (y % 4 = 0 /\ y % 100 /= 0) \/ y % 400 = 0

DaysIn(y, m) ==
    IF m = 2 THEN (IF IsLeap(y) THEN 29 ELSE 28)
    ELSE IF m \in {4, 6, 9, 11} THEN 30 ELSE 31

\* strptime "%Y-%m-%d": the year, or {} on ValueError
YmdYear(s) ==
    LET p == SplitOn(s, "-", 1, <<>>, <<>>)
    IN  IF Len(p) = 3 /\ Len(p[1]) = 4 /\ AllDigits(p[1]) /\ Field12(p[2]) /\ Field12(p[3])
        THEN LET y == DigitsVal(p[1], 0)
                 m == DigitsVal(p[2], 0)
                 d == DigitsVal(p[3], 0)
             IN  IF y >= 1 /\ m \in 1..12 /\ d >= 1 /\ d <= DaysIn(y, m) THEN {y} ELSE {}
        ELSE {}

\* strptime "%H:%M:%S" accepts the text
HmsOk(s) ==
    LET p == SplitOn(s, ":", 1, <<>>, <<>>)
    IN  /\ Len(p) = 3
        /\ \A i \in 1..3 : Field12(p[i])
        /\ DigitsVal(p[1], 0) <= 23
        /\ DigitsVal(p[2], 0) <= 59
        /\ DigitsVal(p[3], 0) <= 61

\* "%Y-%m-%d<sep>%H:%M:%S"
YmdHmsYear(s, sep) ==
    LET p == SplitOn(s, sep, 1, <<>>, <<>>)
    IN  IF Len(p) = 2 /\ HmsOk(p[2]) THEN YmdYear(p[1]) ELSE {}

\* the year of the parsed date ({} when no format matches)
_parse_date(v) ==
    LET st == _norm(v)
    IN  IF st = <<>> THEN {}
        ELSE IF YmdYear(st) /= {} THEN YmdYear(st)
        ELSE IF YmdHmsYear(st, " ") /= {} THEN YmdHmsYear(st, " ")
        ELSE YmdHmsYear(st, "T")

\* Customers buckets (256+)
BIT_CUST_COUNTRY_USA == 256
BIT_CUST_COUNTRY_UK == 257
BIT_CUST_COUNTRY_GERMANY == 258
BIT_CUST_COUNTRY_FRANCE == 259
BIT_CUST_COUNTRY_OTHER == 260

BIT_CUST_CITY_LONDON == 264
BIT_CUST_CITY_PARIS == 265
BIT_CUST_CITY_BERLIN == 266
BIT_CUST_CITY_SEATTLE == 267
BIT_CUST_CITY_MEXICO_DF == 268

\* dict as a set of <<key, bit>> pairs
COUNTRY_BITS ==
    { <<(<<"U", "S", "A">>), BIT_CUST_COUNTRY_USA>>,
      <<(<<"U", ".", "S", ".", "A", ".">>), BIT_CUST_COUNTRY_USA>>,
      <<(<<"U", "K">>), BIT_CUST_COUNTRY_UK>>,
      <<(<<"U", ".", "K", ".">>), BIT_CUST_COUNTRY_UK>>,
      <<(<<"U", "N", "I", "T", "E", "D", " ", "K", "I", "N", "G", "D", "O", "M">>), BIT_CUST_COUNTRY_UK>>,
      <<(<<"G", "E", "R", "M", "A", "N", "Y">>), BIT_CUST_COUNTRY_GERMANY>>,
      <<(<<"F", "R", "A", "N", "C", "E">>), BIT_CUST_COUNTRY_FRANCE>> }

CITY_BITS ==
    { <<(<<"L", "O", "N", "D", "O", "N">>), BIT_CUST_CITY_LONDON>>,
      <<(<<"P", "A", "R", "I", "S">>), BIT_CUST_CITY_PARIS>>,
      <<(<<"B", "E", "R", "L", "I", "N">>), BIT_CUST_CITY_BERLIN>>,
      <<(<<"S", "E", "A", "T", "T", "L", "E">>), BIT_CUST_CITY_SEATTLE>>,
      <<(<<"M", "É", "X", "I", "C", "O", " ", "D", ".", "F", ".">>), BIT_CUST_CITY_MEXICO_DF>>,
      <<(<<"M", "E", "X", "I", "C", "O", " ", "D", ".", "F", ".">>), BIT_CUST_CITY_MEXICO_DF>> }

\* dict.get(key): {} for None
DictGet(dict, key) == {e[2] : e \in {f \in dict : f[1] = key}}

\* row.get(column) on a row given as a record
RowGet(row, col) == IF col \in DOMAIN row THEN row[col] ELSE NoneV

encode_customer_row(row) ==
    LET ctry == _norm_upper(RowGet(row, "Country"))
        cb == IF ctry /= <<>>
              THEN (IF DictGet(COUNTRY_BITS, ctry) /= {}
                    THEN <<CHOOSE b \in DictGet(COUNTRY_BITS, ctry) : TRUE>>
                    ELSE <<BIT_CUST_COUNTRY_OTHER>>)
              ELSE <<>>
        city == _norm_upper(RowGet(row, "City"))
        b == DictGet(CITY_BITS, city)
        tb == IF b /= {} THEN <<CHOOSE x \in b : TRUE>> ELSE <<>>
    IN  _int_from_bits(cb \o tb)

\* Products/Categories buckets (1024+)
BIT_PROD_CATEGORY_BASE == 1024
BIT_PROD_PRICE_LT_10 == 1060
BIT_PROD_PRICE_10_20 == 1061
BIT_PROD_PRICE_20_50 == 1062
BIT_PROD_PRICE_GE_50 == 1063

\* the mutant puts the boundary 50 in the lower bucket
_price_bucket_bit_le50(price) ==
    IF price = {} THEN {}
    ELSE LET p == CHOOSE x \in price : TRUE
         IN  IF DecLt(p, Dec(10, 0)) THEN {BIT_PROD_PRICE_LT_10}
             ELSE IF DecLt(p, Dec(20, 0)) THEN {BIT_PROD_PRICE_10_20}
             ELSE IF DecLe(p, Dec(50, 0)) THEN {BIT_PROD_PRICE_20_50}
             ELSE {BIT_PROD_PRICE_GE_50}

\* the mutant puts the boundary 20 in the lower bucket
_price_bucket_bit_le20(price) ==
    IF price = {} THEN {}
    ELSE LET p == CHOOSE x \in price : TRUE
         IN  IF DecLt(p, Dec(10, 0)) THEN {BIT_PROD_PRICE_LT_10}
             ELSE IF DecLe(p, Dec(20, 0)) THEN {BIT_PROD_PRICE_10_20}
             ELSE IF DecLt(p, Dec(50, 0)) THEN {BIT_PROD_PRICE_20_50}
             ELSE {BIT_PROD_PRICE_GE_50}

_price_bucket_bit(price) ==
    IF price = {} THEN {}
    ELSE LET p == CHOOSE x \in price : TRUE
         IN  IF DecLt(p, Dec(10, 0)) THEN {BIT_PROD_PRICE_LT_10}
             ELSE IF DecLt(p, Dec(20, 0)) THEN {BIT_PROD_PRICE_10_20}
             ELSE IF DecLt(p, Dec(50, 0)) THEN {BIT_PROD_PRICE_20_50}
             ELSE {BIT_PROD_PRICE_GE_50}

\* a set of at most one element as a list
OptSeq(o) == IF o = {} THEN <<>> ELSE <<CHOOSE x \in o : TRUE>>

\* the mutant spaces the category bits two apart
CategoryBit_stride2(cat_id) ==
    IF cat_id /= {} /\ (\A c \in cat_id : 1 <= c /\ c <= 32)
    THEN <<BIT_PROD_CATEGORY_BASE + 2 * ((CHOOSE c \in cat_id : TRUE) - 1)>>
    ELSE <<>>

CategoryBit(cat_id) ==
    IF cat_id /= {} /\ (\A c \in cat_id : 1 <= c /\ c <= 32)
    THEN <<BIT_PROD_CATEGORY_BASE + ((CHOOSE c \in cat_id : TRUE) - 1)>>
    ELSE <<>>

encode_product_row(row) ==
    LET cat_id == _parse_int(RowGet(row, "CategoryID"))
        price == _parse_decimal(RowGet(row, "UnitPrice"))
        pb == _price_bucket_bit(price)
    IN  _int_from_bits(CategoryBit(cat_id) \o OptSeq(pb))

encode_category_row(row) ==
    LET cat_id == _parse_int(RowGet(row, "CategoryID"))
    IN  _int_from_bits(CategoryBit(cat_id))

\* Orders / OrderDetails buckets (1792+)
BIT_ORD_YEAR_1996 == 1792
BIT_ORD_YEAR_1997 == 1793
BIT_ORD_YEAR_1998 == 1794
BIT_ORD_YEAR_OTHER == 1795

_order_year_bit(d) ==
    IF d = {} THEN {}
    ELSE LET year == CHOOSE y \in d : TRUE
         IN  IF year = 1996 THEN {BIT_ORD_YEAR_1996}
             ELSE IF year = 1997 THEN {BIT_ORD_YEAR_1997}
             ELSE IF year = 1998 THEN {BIT_ORD_YEAR_1998}
             ELSE {BIT_ORD_YEAR_OTHER}

encode_order_row(row) ==
    LET d == _parse_date(RowGet(row, "OrderDate"))
        yb == _order_year_bit(d)
    IN  _int_from_bits(OptSeq(yb))

BIT_OD_QTY_LT_5 == 1856
BIT_OD_QTY_5_10 == 1857
BIT_OD_QTY_11_20 == 1858
BIT_OD_QTY_GT_20 == 1859
BIT_OD_DISCOUNT_GT_0 == 1864

_qty_bucket_bit(qty) ==
    IF qty = {} THEN {}
    ELSE LET q == CHOOSE x \in qty : TRUE
         IN  IF q < 5 THEN {BIT_OD_QTY_LT_5}
             ELSE IF q <= 10 THEN {BIT_OD_QTY_5_10}
             ELSE IF q <= 20 THEN {BIT_OD_QTY_11_20}
             ELSE {BIT_OD_QTY_GT_20}

encode_order_details_row(row) ==
    LET qty == _parse_int(RowGet(row, "Quantity"))
        qb == _qty_bucket_bit(qty)
        disc == _parse_decimal(RowGet(row, "Discount"))
        db == IF disc /= {} /\ (\A x \in disc : DecLt(Dec(0, 0), x))
              THEN <<BIT_OD_DISCOUNT_GT_0>> ELSE <<>>
    IN  _int_from_bits(OptSeq(qb) \o db)

encode_row_bits(table, row) ==
    IF table = "Customers" THEN encode_customer_row(row)
    ELSE IF table = "Products" THEN encode_product_row(row)
    ELSE IF table = "Categories" THEN encode_category_row(row)
    ELSE IF table = "Orders" THEN encode_order_row(row)
    ELSE IF table = "OrderDetails" THEN encode_order_details_row(row)
    ELSE ApiError("INVALID_INPUT", "unsupported table")

(***************************************************************************)
(* Predicate compiler (northwind_data_bits.bit_conditions_for)             *)
(***************************************************************************)
\* BitCondition(kind, mask, bits, label); the label text is not modelled
BitCondition(kind, mask, bits) == [kind |-> kind, mask |-> mask, bits |-> bits]

\* outcome of one condition: a clause or a raised error
Clause(kind, bits) == Ok(BitCondition(kind, _mask_from_bits(bits).val, bits))

InputError(message) == ApiError("INVALID_INPUT", message)

\* an input error raised with details={...}, where the details name the
\* rejected table, column or operator
InputErrorNaming(message, details) ==
    [ok |-> FALSE, error |-> "INVALID_INPUT", message |-> message, details |-> details]

\* (bit, lo, hi); an absent bound (None) is {}
PriceBuckets ==
    << [bit |-> BIT_PROD_PRICE_LT_10, lo |-> {Dec(0, 0)}, hi |-> {Dec(10, 0)}],
       [bit |-> BIT_PROD_PRICE_10_20, lo |-> {Dec(10, 0)}, hi |-> {Dec(20, 0)}],
       [bit |-> BIT_PROD_PRICE_20_50, lo |-> {Dec(20, 0)}, hi |-> {Dec(50, 0)}],
       [bit |-> BIT_PROD_PRICE_GE_50, lo |-> {Dec(50, 0)}, hi |-> {}] >>

The(o) == CHOOSE x \in o : TRUE

\* the mutant keeps a finite bucket whose upper bound equals the threshold
PriceGtKeeps_hi_ge(b, op, price) ==
    IF b.hi = {} THEN DecLe(price, The(b.lo))
    ELSE DecLe(price, The(b.hi))

\* op in (">", ">="): does the loop body append the bucket's bit
PriceGtKeeps(b, op, price) ==
    IF b.hi = {} THEN DecLe(price, The(b.lo))
    ELSE IF op = ">=" /\ DecLe(The(b.hi), price) THEN FALSE
    ELSE IF op = ">" /\ DecLe(The(b.hi), price) THEN FALSE
    ELSE DecLt(price, The(b.hi))

\* op in ("<", "<="): does the loop body append the bucket's bit
PriceLtKeeps(b, op, price) ==
    IF b.hi = {} THEN FALSE
    ELSE IF op = "<" /\ DecLe(price, The(b.lo)) THEN FALSE
    ELSE IF op = "<=" /\ DecLt(price, The(b.lo)) THEN FALSE
    ELSE DecLt(The(b.lo), price) \/ (op = "<=" /\ DecLe(The(b.lo), price))

\* op == "=": is this the bucket the loop stops at
PriceEqHits(b, price) ==
    \/ b.hi = {} /\ DecLe(The(b.lo), price)
    \/ b.hi /= {} /\ DecLe(The(b.lo), price) /\ DecLt(price, The(b.hi))

\* for bit, lo, hi in buckets: ...   (the list `allowed` after the loop)
RECURSIVE PriceAllowedLoop(_, _, _, _)
PriceAllowedLoop(op, price, k, allowed) ==
    IF k > Len(PriceBuckets) THEN allowed
    ELSE LET b == PriceBuckets[k]
         IN  IF op = "="
             THEN IF PriceEqHits(b, price) THEN <<b.bit>>
                  ELSE PriceAllowedLoop(op, price, k + 1, allowed)
             ELSE IF op \in {">", ">="}
             THEN PriceAllowedLoop(op, price, k + 1,
                      IF PriceGtKeeps(b, op, price) THEN Append(allowed, b.bit) ELSE allowed)
             ELSE PriceAllowedLoop(op, price, k + 1,
                      IF PriceLtKeeps(b, op, price) THEN Append(allowed, b.bit) ELSE allowed)

\* the mutant never emits ALL
KindFor_any(allowed) == "any"

\* kind = "all" if len(allowed) == 1 else "any"
KindFor(allowed) == IF Len(allowed) = 1 THEN "all" ELSE "any"

\* if not allowed: raise ...; else one clause over the allowed bits
BucketClause(allowed, message) ==
    IF allowed = <<>> THEN InputError(message)
    ELSE Clause(KindFor(allowed), allowed)

QtyBuckets ==
    << [bit |-> BIT_OD_QTY_LT_5, lo |-> {}, hi |-> {5}],
       [bit |-> BIT_OD_QTY_5_10, lo |-> {5}, hi |-> {11}],
       [bit |-> BIT_OD_QTY_11_20, lo |-> {11}, hi |-> {21}],
       [bit |-> BIT_OD_QTY_GT_20, lo |-> {21}, hi |-> {}] >>

QtyEqHits(b, qty) ==
    \/ b.lo = {} /\ qty < The(b.hi)
    \/ b.hi = {} /\ qty >= The(b.lo)
    \/ b.lo /= {} /\ b.hi /= {} /\ qty >= The(b.lo) /\ qty < The(b.hi)

QtyGtKeeps(b, op, qty) ==
    IF b.hi = {} THEN qty <= The(b.lo) ELSE The(b.hi) > qty

QtyLtKeeps(b, op, qty) ==
    IF b.lo = {} THEN qty < The(b.hi)
    ELSE IF qty < The(b.lo) \/ (op = "<=" /\ qty <= The(b.lo)) THEN FALSE
    ELSE TRUE

RECURSIVE QtyAllowedLoop(_, _, _, _)
QtyAllowedLoop(op, qty, k, allowed) ==
    IF k > Len(QtyBuckets) THEN allowed
    ELSE LET b == QtyBuckets[k]
         IN  IF op = "="
             THEN IF QtyEqHits(b, qty) THEN <<b.bit>>
                  ELSE QtyAllowedLoop(op, qty, k + 1, allowed)
             ELSE IF op \in {">", ">="}
             THEN QtyAllowedLoop(op, qty, k + 1,
                      IF QtyGtKeeps(b, op, qty) THEN Append(allowed, b.bit) ELSE allowed)
             ELSE QtyAllowedLoop(op, qty, k + 1,
                      IF QtyLtKeeps(b, op, qty) THEN Append(allowed, b.bit) ELSE allowed)

OrderYearBit(y) ==
    IF y = 1996 THEN BIT_ORD_YEAR_1996
    ELSE IF y = 1997 THEN BIT_ORD_YEAR_1997
    ELSE IF y = 1998 THEN BIT_ORD_YEAR_1998
    ELSE BIT_ORD_YEAR_OTHER

\* body of the loop `for raw in conditions` for one dict raw, after col and
\* op were checked: the clause appended to out, or the error raised
CompileCondition(t, col, op, val) ==
    IF t = "Customers" /\ col = "Country" /\ op = "="
    THEN LET ctry == _norm_upper(val)
             b == DictGet(COUNTRY_BITS, ctry)
         IN  IF ctry = <<>> THEN InputError("Country value is required")
             ELSE IF b = {} THEN InputError("unsupported Country (only demo buckets are supported)")
             ELSE Clause("all", <<The(b)>>)
    ELSE IF t = "Customers" /\ col = "City" /\ op = "="
    THEN LET city == _norm_upper(val)
             b == DictGet(CITY_BITS, city)
         IN  IF city = <<>> THEN InputError("City value is required")
             ELSE IF b = {} THEN InputError("unsupported City (only demo buckets are supported)")
             ELSE Clause("all", <<The(b)>>)
    ELSE IF t \in {"Products", "Categories"} /\ col = "CategoryID" /\ op = "="
    THEN LET cat == _parse_int(val)
         IN  IF cat = {} THEN InputError("CategoryID must be an integer")
             ELSE IF ~(1 <= The(cat) /\ The(cat) <= 32) THEN InputError("CategoryID out of range")
             ELSE Clause("all", <<BIT_PROD_CATEGORY_BASE + (The(cat) - 1)>>)
    ELSE IF t = "Products" /\ col = "UnitPrice"
    THEN LET price == _parse_decimal(val)
         IN  IF price = {} THEN InputError("UnitPrice must be numeric")
             ELSE BucketClause(PriceAllowedLoop(op, The(price), 1, <<>>),
                               "UnitPrice predicate not supported by buckets")
    ELSE IF t = "Orders" /\ col = "OrderYear" /\ op = "="
    THEN LET y == _parse_int(val)
         IN  IF y = {} THEN InputError("OrderYear must be an integer")
             ELSE Clause("all", <<OrderYearBit(The(y))>>)
    ELSE IF t = "OrderDetails" /\ col = "Quantity"
    THEN LET qty == _parse_int(val)
         IN  IF qty = {} THEN InputError("Quantity must be an integer")
             ELSE BucketClause(QtyAllowedLoop(op, The(qty), 1, <<>>),
                               "Quantity predicate not supported by buckets")
    ELSE IF t = "OrderDetails" /\ col = "Discount" /\ op \in {">", ">=", "="}
    THEN LET disc == _parse_decimal(val)
         IN  IF disc = {} THEN InputError("Discount must be numeric")
             ELSE IF DecLe(The(disc), Dec(0, 0)) /\ op /= "="
                  THEN InputError("only Discount > 0 is supported")
             ELSE Clause("all", <<BIT_OD_DISCOUNT_GT_0>>)
    ELSE InputErrorNaming("predicate not supported by bitset encoding",
                          [table |-> t, column |-> col, op |-> op])

SupportedOps == {"=", "<", "<=", ">", ">="}

\* a condition is a record [column, op, value] (column and op already texts:
\* "" stands for a missing or blank entry), or [nondict |-> TRUE]
IsDict(raw) == "column" \in DOMAIN raw

RECURSIVE bit_conditions_loop(_, _, _, _)

\* the mutant drops a condition that raised and goes on with the next
bit_conditions_append_skip(t, conditions, k, out, c) ==
    IF c.ok THEN bit_conditions_loop(t, conditions, k + 1, Append(out, c.val))
    ELSE bit_conditions_loop(t, conditions, k + 1, out)

\* out.append(BitCondition(...)) and on to the next condition, unless the
\* body raised
bit_conditions_append(t, conditions, k, out, c) ==
    IF c.ok THEN bit_conditions_loop(t, conditions, k + 1, Append(out, c.val)) ELSE c

bit_conditions_loop(t, conditions, k, out) ==
    IF k > Len(conditions) THEN Ok(out)
    ELSE LET raw == conditions[k]
         IN  IF ~IsDict(raw) THEN bit_conditions_loop(t, conditions, k + 1, out)
             ELSE LET col == raw.column
                      op == IF raw.op = "" THEN "=" ELSE raw.op
                  IN  IF col = "" THEN InputError("condition column is required")
                      ELSE IF op \notin SupportedOps
                           THEN InputErrorNaming("unsupported operator", [op |-> op])
                      ELSE bit_conditions_append(t, conditions, k, out,
                                                 CompileCondition(t, col, op, raw.value))

\* sorted(set)
RECURSIVE SortedSeq(_)
SortedSeq(S) ==
    IF S = {} THEN <<>>
    ELSE LET m == CHOOSE x \in S : \A y \in S : x <= y
         IN  <<m>> \o SortedSeq(S \ {m})

\* return out, sorted(referenced_bits)
bit_conditions_return(r) ==
    IF r.ok
    THEN Ok([out |-> r.val,
             referenced_bits |-> SortedSeq(UNION {Range(r.val[i].bits) : i \in 1..Len(r.val)})])
    ELSE r

\* returns (out, sorted(referenced_bits)) as [out, referenced_bits]
bit_conditions_for(table, conditions) ==
    IF table \notin SUPPORTED_TABLE_TOKENS
    THEN InputErrorNaming("unsupported table", [table |-> table])
    ELSE bit_conditions_return(bit_conditions_loop(table, conditions, 1, <<>>))

(***************************************************************************)
(* Clause evaluation (northwind_data.compare_sql_vs_bitsets, inner loop)   *)
(* A Python int x is [neg, bits]: for neg = FALSE the set bits of x, for   *)
(* neg = TRUE the set bits of ~x (two's complement, x = -1 - sum 2^i).     *)
(***************************************************************************)
NonNeg(bits) == [neg |-> FALSE, bits |-> bits]

\* x & mask, for a non-negative mask
AndMask(x, mask) == IF x.neg THEN mask \ x.bits ELSE x.bits \cap mask

\* the mutant tests ANY clauses the way ALL clauses are tested
ClauseHolds_all(x, bc) == AndMask(x, bc.mask) = bc.mask

\* bc.kind == "all": (x & bc.mask) == bc.mask; else: (x & bc.mask) != 0
ClauseHolds(x, bc) ==
    IF bc.kind = "all" THEN AndMask(x, bc.mask) = bc.mask
    ELSE AndMask(x, bc.mask) /= {}

\* ok after `for bc in bit_conds`
AllClausesHold(x, bit_conds) == \A i \in 1..Len(bit_conds) : ClauseHolds(x, bit_conds[i])

(***************************************************************************)
(* Specification CompileSpec: bit_conditions_for and encode_row_bits       *)
(* applied to inputs drawn from bounded sets.                              *)
(***************************************************************************)
\* bounds of the inputs
MaxPrice == 51
MaxQty == 22

sGermany == <<"G", "e", "r", "m", "a", "n", "y">>
sGermanyLoose == <<" ", "g", "e", "r", "m", "a", "n", "y", " ">>
sFrance == <<"F", "r", "a", "n", "c", "e">>
sBrazil == <<"B", "r", "a", "z", "i", "l">>
sUK == <<"U", "K">>
sUnitedKingdom == <<"U", "n", "i", "t", "e", "d", " ", " ", "K", "i", "n", "g", "d", "o", "m">>
sBerlin == <<"B", "e", "r", "l", "i", "n">>
sBerlinLower == <<"b", "e", "r", "l", "i", "n">>
sParis == <<"P", "a", "r", "i", "s">>
sOslo == <<"O", "s", "l", "o">>
sMexico == <<"M", "é", "x", "i", "c", "o", " ", "D", ".", "F", ".">>

CountryVals == {Str(sGermany), Str(sGermanyLoose), Str(sFrance), Str(sBrazil), Str(sUK),
                Str(sUnitedKingdom), Str(<<>>), NoneV}
CityVals == {Str(sBerlin), Str(sBerlinLower), Str(sParis), Str(sOslo), Str(sMexico), NoneV}

\* prices -1.0, -0.5, 0.0, 0.5, ... MaxPrice as numbers, and some texts
PriceGrid == {Dec(5 * k, 1) : k \in (-2)..(2 * MaxPrice)}
PriceTexts == {Str(<<"2", "0">>), Str(<<" ", "1", "5", ".", "5", " ">>), Str(<<"a", "b", "c">>),
               Str(<<>>), NoneV}
PriceVals == {[t |-> "num", d |-> p] : p \in PriceGrid} \cup PriceTexts

CatVals == {IntV(0), IntV(1), IntV(32), IntV(33), Num(25, 1), Str(<<"7">>), Str(<<"x">>), NoneV}

YearVals == {IntV(1995), IntV(1996), IntV(1997), IntV(1998), IntV(1999),
             Str(<<"1", "9", "9", "7">>), Str(<<"x">>), NoneV}
DateVals == {Str(<<"1", "9", "9", "6", "-", "0", "7", "-", "0", "4">>),
             Str(<<"1", "9", "9", "7", "-", "0", "1", "-", "0", "1", " ", "0", "0", ":", "0", "0", ":", "0", "0">>),
             Str(<<"1", "9", "9", "8", "-", "0", "5", "-", "0", "6", "T", "1", "0", ":", "3", "0", ":", "0", "0">>),
             Str(<<"1", "9", "9", "9", "-", "0", "2", "-", "2", "8">>),
             Str(<<"1", "9", "9", "7", "-", "0", "2", "-", "3", "0">>),
             Str(<<"1", "9", "9", "6", "/", "0", "7", "/", "0", "4">>),
             Str(<<>>), NoneV}

QtyVals == {IntV(n) : n \in 0..MaxQty} \cup {Str(<<"1", "2">>), Str(<<"x">>), NoneV}
DiscVals == {Num(0, 0), Num(5, 2), Num(-1, 1), Str(<<"0", ".", "2", "5">>), NoneV}

Cond(col, op, val) == [column |-> col, op |-> op, value |-> val]
NonDict == [nondict |-> TRUE]

AllOps == {"=", "<", "<=", ">", ">="}

\* one scenario: a table, a list of conditions and a row of that table
Case(table, conds, row) == qTable = table /\ qConds = conds /\ rRow = row

CustomerCases ==
    \/ \E op \in {"=", "", "<"}, v \in CountryVals, c \in CountryVals, y \in CityVals :
          Case("Customers", <<Cond("Country", op, v)>>, [Country |-> c, City |-> y])
    \/ \E op \in {"=", ">="}, v \in CityVals, c \in {Str(sGermany), NoneV}, y \in CityVals :
          Case("Customers", <<Cond("City", op, v)>>, [Country |-> c, City |-> y])

PriceCases ==
    \E op \in AllOps, v \in PriceVals, p \in PriceVals :
        Case("Products", <<Cond("UnitPrice", op, v)>>, [CategoryID |-> IntV(1), UnitPrice |-> p])

CategoryCases ==
    \E t \in {"Products", "Categories"}, op \in {"=", ">"}, v \in CatVals, c \in CatVals :
        Case(t, <<Cond("CategoryID", op, v)>>, [CategoryID |-> c])

OrderCases ==
    \E op \in {"=", "<="}, v \in YearVals, d \in DateVals :
        Case("Orders", <<Cond("OrderYear", op, v)>>, [OrderDate |-> d])

QuantityCases ==
    \E op \in AllOps, v \in QtyVals, q \in QtyVals :
        Case("OrderDetails", <<Cond("Quantity", op, v)>>, [Quantity |-> q, Discount |-> Num(0, 0)])

DiscountCases ==
    \E op \in AllOps, v \in DiscVals, d \in DiscVals :
        Case("OrderDetails", <<Cond("Discount", op, v)>>, [Quantity |-> IntV(3), Discount |-> d])

\* lists of several conditions, rejected columns, operators and tables
OtherCases ==
    \/ \E cs \in { <<Cond("CategoryID", "=", IntV(1)), Cond("UnitPrice", ">=", Num(20, 0))>>,
                    <<Cond("CategoryID", "=", IntV(1)), Cond("UnitPrice", ">=", Num(60, 0))>>,
                    <<Cond("CategoryID", "=", IntV(1)), Cond("ProductName", "=", Str(<<"x">>))>>,
                    <<NonDict, Cond("UnitPrice", "<", Num(10, 0))>>,
                    <<Cond("", "=", IntV(1))>>,
                    <<Cond("UnitPrice", "!=", IntV(1))>>,
                    <<>> } :
          Case("Products", cs, [CategoryID |-> IntV(1), UnitPrice |-> Num(25, 0)])
    \/ Case("Employees", <<Cond("Country", "=", Str(sUK))>>, [Country |-> Str(sUK)])

CompileInit ==
    /\ \/ CustomerCases
       \/ PriceCases
       \/ CategoryCases
       \/ OrderCases
       \/ QuantityCases
       \/ DiscountCases
       \/ OtherCases
    /\ qRes = NotRun
    /\ rBits = NotRun
    /\ CodecIdle
    /\ StoreIdle
    /\ AuxIdle

Compile ==
    /\ qRes = NotRun
    /\ qRes' = bit_conditions_for(qTable, qConds)
    /\ UNCHANGED <<qTable, qConds, rRow, rBits, codecVars, storeVars, auxVars>>

EncodeRow ==
    /\ rBits = NotRun
    /\ rBits' = encode_row_bits(qTable, rRow)
    /\ UNCHANGED <<qTable, qConds, qRes, rRow, codecVars, storeVars, auxVars>>

(***************************************************************************)
(* The key-value store and the relational source (northwind_data.py)       *)
(*                                                                         *)
(* A store key "{pfx}:data:{table}:{rowId}" is the pair <<table, rowId>>;  *)
(* the registry set "{pfx}:import:northwind_compare:data_bits" is the      *)
(* variable reg.  A stored string is either the decimal numeral of an int  *)
(* x ([t |-> "dec", x |-> x]; 4096-bit numerals are not spelled out) or a  *)
(* text spelled out character by character; [t |-> "nonstring"] is a key   *)
(* holding another Redis type and Absent a key that does not exist.        *)
(***************************************************************************)
Absent == [t |-> "absent"]
NonString == [t |-> "nonstring"]
Numeral(x) == [t |-> "dec", x |-> x]
Text(s) == [t |-> "text", s |-> s]

\* characters in code-point order
CharOrder ==
    <<" ", "+", "-", ".", "/">> \o Digits \o <<":">> \o SubSeq(UpperAlpha, 1, 26)
        \o SubSeq(LowerAlpha, 1, 26) \o <<"É", "é">>

CharCode(ch) == CHOOSE i \in 1..Len(CharOrder) : CharOrder[i] = ch

\* a < b for Python str
RECURSIVE StrLess(_, _)
StrLess(a, b) ==
    IF b = <<>> THEN FALSE
    ELSE IF a = <<>> THEN TRUE
    ELSE IF Head(a) = Head(b) THEN StrLess(Tail(a), Tail(b))
    ELSE CharCode(Head(a)) < CharCode(Head(b))

\* sorted(S) for a set of str
RECURSIVE SortedStrs(_)
SortedStrs(S) ==
    IF S = {} THEN <<>>
    ELSE LET m == CHOOSE x \in S : \A y \in S : x = y \/ StrLess(x, y)
         IN  <<m>> \o SortedStrs(S \ {m})

\* set bits of a natural number
RECURSIVE BitsOfNat(_, _)
BitsOfNat(n, i) ==
    IF n = 0 THEN {}
    ELSE (IF n % 2 = 1 THEN {i} ELSE {}) \cup BitsOfNat(n \div 2, i + 1)

IntAsBits(n) ==
    IF n >= 0 THEN [neg |-> FALSE, bits |-> BitsOfNat(n, 0)]
    ELSE [neg |-> TRUE, bits |-> BitsOfNat((-n) - 1, 0)]

\* the scan's reading of one MGET reply: the int x it tests, or {} when the
\* value is skipped (None, empty after strip, ValueError)
StoredInt(raw_val) ==
    IF raw_val.t \in {"absent", "nonstring"} THEN {}
    ELSE IF raw_val.t = "dec" THEN {raw_val.x}
    ELSE LET s == Strip(raw_val.s)
         IN  IF s = <<>> THEN {}
             ELSE {IntAsBits(n) : n \in IntOfStr(s)}

PK_COLUMN == [Customers |-> "CustomerID", Products |-> "ProductID", Orders |-> "OrderID",
              OrderDetails |-> "OrderID", Categories |-> "CategoryID"]

\* _row_pk for a single-column primary key
_row_pk(table, row) ==
    LET v == RowGet(row, PK_COLUMN[table])
    IN  IF v.t = "none" THEN InputError("primary key is NULL") ELSE Ok(ToStr(v))

\* data_key(pfx, table, row_id) for a valid prefix and table
data_key(table, row_id) ==
    LET rid == Strip(row_id)
    IN  IF rid = <<>> THEN InputError("table and row_id are required")
        ELSE Ok(<<table, rid>>)

\* the mutant deletes every key under "{pfx}:data:" instead of the registry's
reset_data_ingest_by_pattern(st, rg) ==
    [store |-> [k \in DOMAIN st |-> Absent],
     reg |-> {},
     deleted |-> Cardinality({k \in DOMAIN st : st[k] /= Absent})]

\* the mutant deletes the registry and leaves its members in the store
reset_data_ingest_registry_only(st, rg) ==
    [store |-> st, reg |-> {}, deleted |-> 0]

\* reset_data_ingest: DEL every registry member, then DEL the registry
reset_data_ingest(st, rg) ==
    [store |-> [k \in DOMAIN st |-> IF k \in rg THEN Absent ELSE st[k]],
     reg |-> {},
     deleted |-> Cardinality({k \in rg : k \in DOMAIN st /\ st[k] /= Absent})]

PIPE_FLUSH_PENDING == 2000

\* the mutant executes the SETs of the pipeline and drops the SADDs
PipeExecute_no_sadd(sr, pipe) ==
    LET lastSet(k) == CHOOSE i \in 1..Len(pipe) :
                          pipe[i].key = k /\ \A j \in (i + 1)..Len(pipe) : pipe[j].key /= k
        keys == {pipe[i].key : i \in 1..Len(pipe)}
    IN  [store |-> [k \in DOMAIN sr.store |->
                       IF k \in keys THEN pipe[lastSet(k)].value ELSE sr.store[k]],
         reg |-> sr.reg]

\* pipe.execute() on the queued pairs (SET k value; SADD reg k), in order:
\* a key keeps the value of its last SET
PipeExecute(sr, pipe) ==
    LET lastSet(k) == CHOOSE i \in 1..Len(pipe) :
                          pipe[i].key = k /\ \A j \in (i + 1)..Len(pipe) : pipe[j].key /= k
        keys == {pipe[i].key : i \in 1..Len(pipe)}
    IN  [store |-> [k \in DOMAIN sr.store |->
                       IF k \in keys THEN pipe[lastSet(k)].value ELSE sr.store[k]],
         reg |-> sr.reg \cup keys]

\* one row of the loop body: the pair queued by pipe.set / pipe.sadd, or
\* the error raised by _row_pk, encode_row_bits or data_key
QueueRow(token, row_id, bits_int) ==
    IF ~row_id.ok THEN row_id
    ELSE IF ~bits_int.ok THEN bits_int
    ELSE LET k == data_key(token, row_id.val)
         IN  IF ~k.ok THEN k
             ELSE Ok([key |-> k.val, value |-> Numeral(NonNeg(bits_int.val))])

IngestRow(token, row) == QueueRow(token, _row_pk(token, row), encode_row_bits(token, row))

\* rows of a table whose body runs: all of them, or the first
\* max_rows_per_table when that limit is positive
RowsRead(rows, max_rows_per_table) ==
    IF max_rows_per_table /= 0 /\ Len(rows) > max_rows_per_table
    THEN max_rows_per_table ELSE Len(rows)

\* processed_by_table[token] when the table's loop ends normally (the row
\* that hits the limit is counted before the break)
RowsProcessed(rows, max_rows_per_table) ==
    IF max_rows_per_table /= 0 /\ Len(rows) > max_rows_per_table
    THEN max_rows_per_table + 1 ELSE Len(rows)

\* the loop bodies of `for token in requested: for row in ...`, in order
RECURSIVE IngestItems(_, _, _, _)
IngestItems(source, requested, j, max_rows_per_table) ==
    IF j > Len(requested) THEN <<>>
    ELSE LET token == requested[j]
             rows == source[token]
         IN  [i \in 1..RowsRead(rows, max_rows_per_table) |-> IngestRow(token, rows[i])]
                 \o IngestItems(source, requested, j + 1, max_rows_per_table)

SUPPORTED_TABLE_LIST == <<"Customers", "Orders", "OrderDetails", "Products", "Categories">>

Filter(seq, S) == SelectSeq(seq, LAMBDA x : x \in S)

\* the end of ingest_data_rows, given the loop bodies in order.  The
\* pipeline is executed each time 2000 commands (1000 rows) are pending and
\* once at the end; a row that raises ends the run with the pending
\* commands never executed.
IngestOutcome(source, sr0, requested, max_rows_per_table, items) ==
    LET failed == {i \in 1..Len(items) : ~items[i].ok}
        firstFailed == CHOOSE i \in failed : \A j \in failed : i <= j
        rowsPerFlush == PIPE_FLUSH_PENDING \div 2
        flushed == ((firstFailed - 1) \div rowsPerFlush) * rowsPerFlush
    IN  IF failed /= {}
        THEN [sr |-> PipeExecute(sr0, [i \in 1..flushed |-> items[i].val]),
              result |-> items[firstFailed]]
        ELSE [sr |-> PipeExecute(sr0, [i \in 1..Len(items) |-> items[i].val]),
              result |-> Ok([requested |-> requested,
                             created_by_table |->
                                 [j \in 1..Len(requested) |->
                                     RowsRead(source[requested[j]], max_rows_per_table)],
                             processed_by_table |->
                                 [j \in 1..Len(requested) |->
                                     RowsProcessed(source[requested[j]], max_rows_per_table)]])]

\* ingest_data_rows after the optional reset, for the requested tables
IngestRequested(source, sr0, requested, max_rows_per_table) ==
    IF requested = <<>>
    THEN [sr |-> sr0, result |-> InputError("no supported tables requested")]
    ELSE IngestOutcome(source, sr0, requested, max_rows_per_table,
                       IngestItems(source, requested, 1, max_rows_per_table))

\* the store and registry as records
StoreReg(z) == [store |-> z.store, reg |-> z.reg]

\* ingest_data_rows: the store and registry it leaves, and its result
\* (tables = <<>> stands for None)
ingest_data_rows(source, st, rg, tables, reset, max_rows_per_table) ==
    IngestRequested(source,
                    IF reset THEN StoreReg(reset_data_ingest(st, rg))
                    ELSE [store |-> st, reg |-> rg],
                    Filter(IF tables = <<>> THEN SUPPORTED_TABLE_LIST ELSE tables,
                           SUPPORTED_TABLE_TOKENS),
                    max_rows_per_table)

\* one condition of the WHERE clause on one source row (SQLite: exact,
\* case-sensitive text comparison; NULL compares as unknown; numeric
\* comparison on the numeric columns)
SqlCondHolds(row, raw) ==
    LET col == raw.column
        op == IF raw.op = "" THEN "=" ELSE raw.op
        cell == RowGet(row, col)
    IN  CASE col \in {"Country", "City"} ->
                /\ cell.t = "str"
                /\ raw.value.t = "str"
                /\ (CASE op = "=" -> cell.s = raw.value.s
                      [] op = "<" -> StrLess(cell.s, raw.value.s)
                      [] op = "<=" -> ~StrLess(raw.value.s, cell.s)
                      [] op = ">" -> StrLess(raw.value.s, cell.s)
                      [] op = ">=" -> ~StrLess(cell.s, raw.value.s))
          [] col \in {"UnitPrice", "CategoryID"} ->
                /\ _parse_decimal(cell) /= {}
                /\ _parse_decimal(raw.value) /= {}
                /\ DecSat(The(_parse_decimal(cell)), op, The(_parse_decimal(raw.value)))

\* _sql_where_and_params and the SELECT: the listed primary keys, or the
\* error raised while building the WHERE clause
RECURSIVE SqlWhereError(_, _)
SqlWhereError(conditions, k) ==
    IF k > Len(conditions) THEN Ok(0)
    ELSE IF ~IsDict(conditions[k]) THEN SqlWhereError(conditions, k + 1)
    ELSE IF conditions[k].column = "" THEN InputError("condition column is required")
    ELSE IF (IF conditions[k].op = "" THEN "=" ELSE conditions[k].op) \notin SupportedOps
         THEN InputError("unsupported operator")
    ELSE SqlWhereError(conditions, k + 1)

SqlRowMatches(row, conditions) ==
    \A k \in 1..Len(conditions) : IsDict(conditions[k]) => SqlCondHolds(row, conditions[k])

\* sql_ids: _row_pk of each selected row, or the error _row_pk raises
SqlIdsCons(pk, rest) ==
    IF ~pk.ok THEN pk
    ELSE IF ~rest.ok THEN rest
    ELSE Ok(<<pk.val>> \o rest.val)

RECURSIVE SqlIds(_, _, _, _)
SqlIds(table, rows, conditions, i) ==
    IF i > Len(rows) THEN Ok(<<>>)
    ELSE IF ~SqlRowMatches(rows[i], conditions) THEN SqlIds(table, rows, conditions, i + 1)
    ELSE SqlIdsCons(_row_pk(table, rows[i]), SqlIds(table, rows, conditions, i + 1))

\* keys SCAN can report for match "{pfx}:data:{t}:*"
MatchingKeys(st, table) == {k \in DOMAIN st : k[1] = table /\ st[k] /= Absent}

\* the sets of keys _scan_data_keys can end up with: SCAN's order is not
\* specified, and the loop stops once len(out) >= max_keys
ScanResults(st, table, max_keys) ==
    LET m == MatchingKeys(st, table)
        n == IF max_keys < 1 THEN 1 ELSE max_keys
    IN  IF Cardinality(m) <= n THEN {m}
        ELSE {S \in SUBSET m : Cardinality(S) = n}

\* out.sort(): keys of one table sort by their row id
SortedKeys(table, S) ==
    LET rids == SortedStrs({k[2] : k \in S})
    IN  [i \in 1..Len(rids) |-> <<table, rids[i]>>]

\* _row_id_from_data_key: {} for None
_row_id_from_data_key(key, table) ==
    IF key[1] /= table THEN {}
    ELSE IF key[2] = <<>> THEN {} ELSE {key[2]}

\* the loop over MGET replies: the list bitset_ids
\* one MGET reply: the row id appended to bitset_ids, if any
BitsetIdOf(x, rid, bit_conds) ==
    IF x = {} THEN <<>>
    ELSE IF ~AllClausesHold(The(x), bit_conds) THEN <<>>
    ELSE IF rid = {} THEN <<>>
    ELSE <<The(rid)>>

RECURSIVE BitsetIds(_, _, _, _, _)
BitsetIds(st, table, data_keys, bit_conds, j) ==
    IF j > Len(data_keys) THEN <<>>
    ELSE BitsetIdOf(StoredInt(st[data_keys[j]]),
                    _row_id_from_data_key(data_keys[j], table), bit_conds)
             \o BitsetIds(st, table, data_keys, bit_conds, j + 1)

Max(a, b) == IF a >= b THEN a ELSE b
Min(a, b) == IF a <= b THEN a ELSE b

\* lst[: max(0, int(sample))]
_sample(lst, sample) == SubSeq(lst, 1, Min(Len(lst), Max(0, sample)))

\* the mutant reports the intersection as the ids found on the SQL side
ResultSets_sql_as_intersection(sql_set, bit_set) ==
    [intersection |-> SortedStrs(sql_set),
     only_sql |-> SortedStrs(sql_set \ bit_set),
     only_bitset |-> SortedStrs(bit_set \ sql_set)]

\* sorted(sql_set & bit_set), sorted(sql_set - bit_set), sorted(bit_set - sql_set)
ResultSets(sql_set, bit_set) ==
    [intersection |-> SortedStrs(sql_set \cap bit_set),
     only_sql |-> SortedStrs(sql_set \ bit_set),
     only_bitset |-> SortedStrs(bit_set \ sql_set)]

\* the returned document; it also carries the locals sql_ids, bitset_ids,
\* data_keys and bit_conds
CompareDocument(table, sample, max_scan_keys, bc, sql_ids, data_keys, bitset_ids, d) ==
    Ok([table |-> table,
        bits |-> bc.referenced_bits,
        results |->
            [sql |-> [count |-> Len(sql_ids),
                      ids |-> _sample(SortedStrs(Range(sql_ids)), sample)],
             bitset |-> [count |-> Len(bitset_ids),
                         ids |-> _sample(SortedStrs(Range(bitset_ids)), sample)],
             intersection |-> [count |-> Len(d.intersection),
                               ids |-> _sample(d.intersection, sample)],
             only_sql |-> [count |-> Len(d.only_sql), ids |-> _sample(d.only_sql, sample)],
             only_bitset |-> [count |-> Len(d.only_bitset),
                              ids |-> _sample(d.only_bitset, sample)]],
        scan |-> [data_keys_scanned |-> Len(data_keys), max_scan_keys |-> max_scan_keys],
        sql_ids |-> sql_ids,
        bitset_ids |-> bitset_ids,
        data_keys |-> data_keys,
        bit_conds |-> bc.out])

\* from sql_set = set(sql_ids) to the return
CompareSets(table, sample, max_scan_keys, bc, sql_ids, data_keys, bitset_ids) ==
    CompareDocument(table, sample, max_scan_keys, bc, sql_ids, data_keys, bitset_ids,
                    ResultSets(Range(sql_ids), Range(bitset_ids)))

\* the bitset side: the scan loop over the sorted keys
CompareScan(st, table, sample, max_scan_keys, bc, sql_ids, data_keys) ==
    CompareSets(table, sample, max_scan_keys, bc, sql_ids, data_keys,
                BitsetIds(st, table, data_keys, bc.out, 1))

\* the SQL side, then bit_conditions_for, then the scan
CompareSides(st, table, sample, max_scan_keys, scanned, sql, bc) ==
    IF ~sql.ok THEN sql
    ELSE IF ~bc.ok THEN bc
    ELSE CompareScan(st, table, sample, max_scan_keys, bc.val, sql.val,
                     SortedKeys(table, scanned))

\* compare_sql_vs_bitsets, given the key set the scan came back with
compare_sql_vs_bitsets(source, st, table, predicate_type, conditions, sample, max_scan_keys, scanned) ==
    IF table \notin SUPPORTED_TABLE_TOKENS THEN InputError("unsupported table")
    ELSE IF predicate_type /= "and" THEN InputError("only predicate type 'and' is supported")
    ELSE IF conditions = <<>> THEN InputError("at least one condition is required")
    ELSE IF ~SqlWhereError(conditions, 1).ok THEN SqlWhereError(conditions, 1)
    ELSE CompareSides(st, table, sample, max_scan_keys, scanned,
                      SqlIds(table, source[table], conditions, 1),
                      bit_conditions_for(table, conditions))

(***************************************************************************)
(* Commands the evaluation and reporting functions send to the store.      *)
(* A command is its name and the key it names; the store after a list of   *)
(* commands is the store with the keys of its DEL commands removed.        *)
(***************************************************************************)
READ_COMMANDS == {"SCAN", "MGET", "SSCAN", "SCARD", "SMEMBERS", "HMGET"}

Cmd(name, key) == [cmd |-> name, key |-> key]

RegistryKey == <<"registry">>

\* keys removed by the commands of a list
Deleted(cmds) == {cmds[i].key : i \in {j \in DOMAIN cmds : cmds[j].cmd \notin READ_COMMANDS}}

\* the row keys, the data_bits registry, the importer's keys and the order
\* objects and indexes after a list of commands
StoreAfter(st, cmds) ==
    IF Deleted(cmds) = {} THEN st
    ELSE [k \in DOMAIN st |-> IF k \in Deleted(cmds) THEN Absent ELSE st[k]]

RegAfter(rg, cmds) == IF RegistryKey \in Deleted(cmds) THEN {} ELSE rg

KeysAfter(keys, cmds) ==
    IF Deleted(cmds) = {} THEN keys
    ELSE {k \in keys : \A d \in Deleted(cmds) :
             ~(Len(d) <= Len(k) /\ SubSeq(k, 1, Len(d)) = d)}

TotalsAfter(ts, cmds) ==
    IF Deleted(cmds) = {} THEN ts
    ELSE [obj |-> [n \in {m \in DOMAIN ts.obj : <<"obj", m>> \notin Deleted(cmds)} |->
                      ts.obj[n]],
          idx |-> [o \in {m \in DOMAIN ts.idx : <<"odidx", m>> \notin Deleted(cmds)} |->
                      ts.idx[o]]]

\* the mutant of the comparison also deletes the keys whose rows it read
compare_commands_del(table, scanned, res) ==
    IF ~res.ok THEN <<>>
    ELSE <<Cmd("SCAN", <<table>>)>>
             \o [i \in 1..Len(SortedKeys(table, scanned)) |->
                    Cmd("DEL", SortedKeys(table, scanned)[i])]

\* compare_sql_vs_bitsets: scan_iter over the table's pattern, then MGET on
\* the sorted keys; every raise happens before the scan
compare_commands(table, scanned, res) ==
    IF ~res.ok THEN <<>>
    ELSE <<Cmd("SCAN", <<table>>)>>
             \o [i \in 1..Len(SortedKeys(table, scanned)) |->
                    Cmd("MGET", SortedKeys(table, scanned)[i])]

DATA_INFO_MAX_KEYS == 50000

\* the registry members data_info counts: all of them, or max_keys of them
\* in the order SSCAN reports them
CountedMembers(rg, max_keys) ==
    IF Cardinality(rg) <= max_keys THEN {rg}
    ELSE {S \in SUBSET rg : Cardinality(S) = Max(0, max_keys)}

\* data_info, given the members it counted
data_info(counted) ==
    Ok([total |-> Cardinality(counted),
        counts_by_table |->
            [t \in {k[1] : k \in counted} |-> Cardinality({k \in counted : k[1] = t})]])

data_info_commands == <<Cmd("SSCAN", RegistryKey)>>

(***************************************************************************)
(* Specification StoreSpec: ingest, reset and compare on one prefix, with  *)
(* other clients writing keys under the same prefix.                       *)
(***************************************************************************)
DEFAULT_MAX_SCAN_KEYS == 200000
DEFAULT_SAMPLE == 25

idA == <<"A">>
idSpaceA == <<" ", "A">>
idB == <<"B">>
idZ == <<"Z">>

Customer(id, country, city) == [CustomerID |-> Str(id), Country |-> country, City |-> city]

\* the rows a source may hold, in table order
CustomerChoices ==
    << {<<Customer(idA, Str(sGermany), Str(sBerlin))>>, <<Customer(idA, Str(sFrance), Str(sParis))>>},
       {<<>>, <<Customer(idSpaceA, Str(sGermany), Str(sBerlin))>>},
       {<<>>, <<Customer(idB, Str(sGermanyLoose), NoneV)>>} >>

ProductRows ==
    << [ProductID |-> IntV(1), CategoryID |-> IntV(1), UnitPrice |-> Num(25, 0)],
       [ProductID |-> IntV(2), CategoryID |-> IntV(2), UnitPrice |-> Num(185, 1)] >>

Source(customers) ==
    [Customers |-> customers, Products |-> ProductRows, Orders |-> <<>>,
     OrderDetails |-> <<>>, Categories |-> <<>>]

KeyUniverse ==
    {<<"Customers", rid>> : rid \in {idA, idB, idZ, <<>>}}
        \cup {<<"Products", rid>> : rid \in {<<"1">>, <<"2">>}}

\* what other clients do: SET a key to a string, make it a key of another
\* type, or DEL it
ForeignWrites ==
    {[key |-> <<"Customers", idZ>>, value |-> v] :
        v \in {Numeral(NonNeg({BIT_CUST_COUNTRY_GERMANY, BIT_CUST_CITY_BERLIN})),
               Text(<<" ", "-", "1">>), Text(<<"a", "b", "c">>), Text(<<" ">>),
               NonString, Absent}}
        \cup {[key |-> <<"Customers", <<>>>>, value |-> v] :
                 v \in {Numeral(NonNeg({BIT_CUST_COUNTRY_GERMANY})), Absent}}

\* the calls of ingest_data_rows (tables = <<>> stands for None)
IngestCalls ==
    {[tables |-> <<>>, reset |-> TRUE, max_rows_per_table |-> 0],
     [tables |-> <<"Customers">>, reset |-> TRUE, max_rows_per_table |-> 0],
     [tables |-> <<"Customers">>, reset |-> FALSE, max_rows_per_table |-> 1],
     [tables |-> <<"Products">>, reset |-> TRUE, max_rows_per_table |-> 1],
     [tables |-> <<"Employees">>, reset |-> TRUE, max_rows_per_table |-> 0]}

QGermany == <<Cond("Country", "=", Str(sGermany))>>
QGermanyBerlin == <<Cond("Country", "=", Str(sGermany)), Cond("City", "=", Str(sBerlin))>>
QBrazil == <<Cond("Country", "=", Str(sBrazil))>>
QPriceGe20 == <<Cond("UnitPrice", ">=", Str(<<"2", "0">>))>>
QPriceLt10 == <<Cond("UnitPrice", "<", Str(<<"1", "0">>))>>

CompareCall(table, predicate_type, conditions, sample, max_scan_keys) ==
    [table |-> table, predicate_type |-> predicate_type, conditions |-> conditions,
     sample |-> sample, max_scan_keys |-> max_scan_keys]

\* the calls of compare_sql_vs_bitsets
CompareCalls ==
    {CompareCall("Customers", "and", QGermany, DEFAULT_SAMPLE, DEFAULT_MAX_SCAN_KEYS),
     CompareCall("Customers", "and", QGermany, 1, DEFAULT_MAX_SCAN_KEYS),
     CompareCall("Customers", "and", QGermany, 0, 1),
     CompareCall("Customers", "and", QGermany, DEFAULT_SAMPLE, 0),
     CompareCall("Customers", "and", QGermanyBerlin, DEFAULT_SAMPLE, DEFAULT_MAX_SCAN_KEYS),
     CompareCall("Customers", "and", QBrazil, DEFAULT_SAMPLE, DEFAULT_MAX_SCAN_KEYS),
     CompareCall("Customers", "and", <<>>, DEFAULT_SAMPLE, DEFAULT_MAX_SCAN_KEYS),
     CompareCall("Customers", "or", QGermany, DEFAULT_SAMPLE, DEFAULT_MAX_SCAN_KEYS),
     CompareCall("Products", "and", QPriceGe20, 1, DEFAULT_MAX_SCAN_KEYS),
     CompareCall("Products", "and", QPriceLt10, DEFAULT_SAMPLE, DEFAULT_MAX_SCAN_KEYS),
     CompareCall("Shippers", "and", QGermany, DEFAULT_SAMPLE, DEFAULT_MAX_SCAN_KEYS)}

NoOp == [op |-> "none"]

StoreInit ==
    /\ \E a \in CustomerChoices[1], b \in CustomerChoices[2], c \in CustomerChoices[3] :
          src = Source(a \o b \o c)
    /\ store = [k \in KeyUniverse |-> Absent]
    /\ reg = {}
    /\ last = NoOp
    /\ log = NoOp
    /\ CodecIdle
    /\ CompileIdle
    /\ AuxIdle

IngestDataRows ==
    /\ \E c \in IngestCalls :
          \E r \in {ingest_data_rows(src, store, reg, c.tables, c.reset, c.max_rows_per_table)} :
              /\ store' = r.sr.store
              /\ reg' = r.sr.reg
              /\ last' = [op |-> "ingest", tables |-> c.tables, reset |-> c.reset,
                          max_rows_per_table |-> c.max_rows_per_table, res |-> r.result]
              /\ log' = last'
    /\ UNCHANGED <<src, codecVars, compileVars, auxVars>>

ResetDataIngest ==
    /\ \E z \in {reset_data_ingest(store, reg)} :
          /\ store' = z.store
          /\ reg' = z.reg
          /\ last' = [op |-> "reset", res |-> Ok([deleted |-> z.deleted])]
          /\ log' = last'
    /\ UNCHANGED <<src, codecVars, compileVars, auxVars>>

CompareSqlVsBitsets ==
    /\ \E c \in CompareCalls :
          \E scanned \in ScanResults(store, c.table, c.max_scan_keys) :
          \E res \in {compare_sql_vs_bitsets(src, store, c.table, c.predicate_type,
                                             c.conditions, c.sample, c.max_scan_keys,
                                             scanned)} :
              /\ last' = [op |-> "compare", table |-> c.table, conditions |-> c.conditions,
                          predicate_type |-> c.predicate_type, sample |-> c.sample,
                          max_scan_keys |-> c.max_scan_keys, res |-> res]
              /\ store' = StoreAfter(store, compare_commands(c.table, scanned, res))
              /\ reg' = RegAfter(reg, compare_commands(c.table, scanned, res))
    /\ UNCHANGED <<src, log, codecVars, compileVars, auxVars>>

\* data_info on the registry of the prefix
DataInfo ==
    /\ \E max_keys \in {DATA_INFO_MAX_KEYS, 1} :
          \E counted \in CountedMembers(reg, max_keys) :
              last' = [op |-> "data_info", max_keys |-> max_keys, res |-> data_info(counted)]
    /\ store' = StoreAfter(store, data_info_commands)
    /\ reg' = RegAfter(reg, data_info_commands)
    /\ UNCHANGED <<src, log, codecVars, compileVars, auxVars>>

\* another client of the store writes a key under the prefix
ForeignWrite ==
    /\ \E w \in ForeignWrites :
          /\ store[w.key] /= w.value
          /\ store' = [store EXCEPT ![w.key] = w.value]
    /\ last' = [op |-> "foreign"]
    /\ log' = [op |-> "foreign"]
    /\ UNCHANGED <<src, reg, codecVars, compileVars, auxVars>>

(***************************************************************************)
(* The importer's keys and registries (northwind_compare.py)               *)
(*                                                                         *)
(* A key or a set member is the tuple of its ":"-separated parts after the *)
(* namespace prefix: "{pfx}:element:tbl:Orders" is                         *)
(* <<"element", "tbl", "Orders">>.  An object name "OrderDetails:10248:11" *)
(* is <<"OrderDetails", "10248", "11">>.  The members of the table sets,   *)
(* of the universe set and of the per-order index sets are kept in mKeys   *)
(* as the set key followed by the member; a set key exists while it has a  *)
(* member.                                                                 *)
(***************************************************************************)
ElementKey(name) == <<"element">> \o name

ObjectKey(name) == <<"obj">> \o name

TableSetMember(name) == <<"tableset", name[1]>> \o name

UniverseMember(name) == <<"all">> \o name

OrderIndexMember(name) == <<"odidx", name[2]>> \o name

\* RESET_LUA: the registry members of the form table:id, and the order ids
\* of the OrderDetails members among them
LuaMembers(registry) == {n \in registry : Len(n) >= 2}

LuaOrders(registry) ==
    {n[2] : n \in {m \in LuaMembers(registry) :
                       m[1] = "OrderDetails" /\ Len(m) >= 3}}

\* the keys left by RESET_LUA
LuaKeys(keys, registry) ==
    {k \in keys :
        /\ \A n \in LuaMembers(registry) : k /= ObjectKey(n)
        /\ ~ (k[1] = "tableset" /\ \E n \in LuaMembers(registry) : k[2] = n[1])
        /\ ~ (k[1] = "odidx" /\ k[2] \in LuaOrders(registry))
        /\ k[1] /= "all"}

reset_import(keys, registry) ==
    [keys |-> LuaKeys(keys, registry),
     res |-> [scanned |-> Cardinality(registry),
              deleted_objects |-> Cardinality(LuaMembers(registry))]]

\* a key matched by one of "{pfx}:element:tbl:*", "{pfx}:element:col:*",
\* "{pfx}:element:rel:*"
MatchesElementPattern(k) ==
    Len(k) >= 3 /\ k[1] = "element" /\ k[2] \in {"tbl", "col", "rel"}

SCAN_DELETE_LIMIT == 50000

\* the sets of keys the pattern scan of reset_schema_meta can queue for
\* deletion: every matching key, or the first 50_000 the scan returns
ScanDeleted(keys) ==
    LET matching == {k \in keys : MatchesElementPattern(k)}
    IN  IF Cardinality(matching) <= SCAN_DELETE_LIMIT THEN {matching}
        ELSE {D \in SUBSET matching : Cardinality(D) = SCAN_DELETE_LIMIT}

\* reset_schema_meta with the registry members names and the scanned keys extra
reset_schema_meta(keys, names, extra) ==
    [keys |-> (keys \ {ElementKey(n) : n \in names}) \ extra,
     res |-> [registry_scanned |-> Cardinality(names),
              deleted |-> Cardinality(names) + Cardinality(extra)]]

\* the rows loop of import_northwind: the keys and set members written
ImportedRowKeys(rows) ==
    {ObjectKey(n) : n \in rows} \cup {TableSetMember(n) : n \in rows}
        \cup {UniverseMember(n) : n \in rows}
        \cup {OrderIndexMember(n) : n \in {m \in rows : m[1] = "OrderDetails"}}

\* the element names import_schema_meta writes for a source
ElementNames(source) ==
    {<<"tbl", t>> : t \in source.tables}
        \cup {<<"col">> \o c : c \in source.cols}
        \cup {<<"rel">> \o f : f \in source.rels}

RequiredTables == {"Customers", "Orders", "OrderDetails"}

\* import_northwind after the optional reset left keys, import_reg and
\* schema_reg; reset_res is the reset part of the returned document
import_northwind_body(source, keys, import_reg, schema_reg, reset_res) ==
    IF ~ (RequiredTables \subseteq source.tables)
    THEN [keys |-> keys, import_reg |-> import_reg, schema_reg |-> schema_reg,
          wrote |-> {},
          res |-> ApiError("INVALID_INPUT",
                 "expected Northwind tables not found (need Customers, Orders, Order Details)")]
    ELSE [keys |-> keys \cup ImportedRowKeys(source.rows)
                       \cup {ElementKey(n) : n \in ElementNames(source)},
          import_reg |-> import_reg \cup source.rows,
          schema_reg |-> schema_reg \cup ElementNames(source),
          wrote |-> ImportedRowKeys(source.rows)
                       \cup {ElementKey(n) : n \in ElementNames(source)},
          res |-> Ok([created |-> Cardinality(ElementNames(source)),
                      rows |-> Cardinality(source.rows),
                      reset |-> reset_res])]

\* the reset branch: reset_import, then reset_schema_meta on what it left
import_northwind_reset(source, after_import_reset, names, extra) ==
    import_northwind_body(source,
        reset_schema_meta(after_import_reset.keys, names, extra).keys,
        {}, {},
        <<after_import_reset.res,
          reset_schema_meta(after_import_reset.keys, names, extra).res>>)

(***************************************************************************)
(* Specification MetaSpec: imports with and without reset on one prefix,   *)
(* with other clients writing keys under the same prefix.                  *)
(***************************************************************************)
MetaSourceFull ==
    [tables |-> {"Customers", "Orders", "OrderDetails"},
     rows |-> {<<"Customers", "ALFKI">>, <<"Orders", "10248">>,
               <<"OrderDetails", "10248", "11">>},
     cols |-> {<<"Customers", "City">>, <<"Orders", "CustomerID">>},
     rels |-> {<<"Orders", "Customers", "fk0">>}]

MetaSourceSmall ==
    [tables |-> {"Customers", "Orders", "OrderDetails"},
     rows |-> {<<"Orders", "10248">>},
     cols |-> {<<"Customers", "City">>},
     rels |-> {}]

MetaSourceNoOrders ==
    [tables |-> {"Customers"},
     rows |-> {<<"Customers", "ALFKI">>},
     cols |-> {<<"Customers", "City">>},
     rels |-> {}]

MetaSources == {MetaSourceFull, MetaSourceSmall, MetaSourceNoOrders}

\* keys other clients of the prefix write
ForeignElementKeys ==
    {<<"element", "tbl", "Inventory">>, <<"element", "col", "Inventory", "sku">>,
     <<"element", "rel", "Inventory", "Bins", "fk0">>,
     <<"element", "tbl", "Customers">>, <<"element", "user", "alice">>}

ForeignKeys == ForeignElementKeys \cup {<<"all", "user", "alice">>}

MetaInit ==
    /\ mKeys = {}
    /\ mImportReg = {}
    /\ mSchemaReg = {}
    /\ mWrote = {}
    /\ mLast = [op |-> "none"]
    /\ CodecIdle
    /\ CompileIdle
    /\ StoreIdle
    /\ TotalsIdle
    /\ SchemaIdle

MetaApply(op, r) ==
    /\ mKeys' = r.keys
    /\ mImportReg' = r.import_reg
    /\ mSchemaReg' = r.schema_reg
    /\ mWrote' = mWrote \cup r.wrote
    /\ mLast' = [op |-> op, res |-> r.res]

ImportNorthwindReset ==
    /\ \E source \in MetaSources :
       \E after \in {reset_import(mKeys, mImportReg)} :
       \E extra \in ScanDeleted(after.keys) :
       \E r \in {import_northwind_reset(source, after, mSchemaReg, extra)} :
           MetaApply("import_reset", r)
    /\ UNCHANGED <<codecVars, compileVars, storeVars, totalsVars, schemaVars>>

ImportNorthwind ==
    /\ \E source \in MetaSources :
       \E r \in {import_northwind_body(source, mKeys, mImportReg, mSchemaReg,
                                       <<>>)} :
           MetaApply("import", r)
    /\ UNCHANGED <<codecVars, compileVars, storeVars, totalsVars, schemaVars>>

MetaForeignWrite ==
    /\ \E k \in ForeignKeys : mKeys' = mKeys \cup {k}
    /\ mLast' = [op |-> "foreign"]
    /\ UNCHANGED <<mImportReg, mSchemaReg, mWrote>>
    /\ UNCHANGED <<codecVars, compileVars, storeVars, totalsVars, schemaVars>>

TABLE_TOKENS ==
    <<"Customers", "Orders", "OrderDetails", "Products", "Employees", "Suppliers",
      "Categories", "Shippers", "Regions", "Territories", "EmployeeTerritories",
      "CustomerDemographics">>

\* the tokens whose table the source holds, in the order of TABLE_TOKENS
CountedTokens(source) == SelectSeq(TABLE_TOKENS, LAMBDA t : t \in source.tables)

RowCount(source, keys, token) ==
    LET sqlite_count == Cardinality({n \in source.rows : n[1] = token})
        redis_count == Cardinality({k \in keys : k[1] = "tableset" /\ k[2] = token})
    IN  [table |-> token, sqlite_count |-> sqlite_count, redis_count |-> redis_count,
         match |-> (sqlite_count = redis_count)]

\* report_row_counts: COUNT(*) of each table found against SCARD of its
\* table set
report_row_counts(source, keys) ==
    Ok([i \in 1..Len(CountedTokens(source)) |->
           RowCount(source, keys, CountedTokens(source)[i])])

report_row_counts_commands(source) ==
    [i \in 1..Len(CountedTokens(source)) |->
        Cmd("SCARD", <<"tableset", CountedTokens(source)[i]>>)]

ReportRowCounts ==
    /\ \E source \in MetaSources :
          /\ mLast' = [op |-> "report_row_counts", res |-> report_row_counts(source, mKeys)]
          /\ mKeys' = KeysAfter(mKeys, report_row_counts_commands(source))
    /\ UNCHANGED <<mImportReg, mSchemaReg, mWrote>>
    /\ UNCHANGED <<codecVars, compileVars, storeVars, totalsVars, schemaVars>>

(***************************************************************************)
(* decimal.Decimal as northwind_compare.py uses it: a sign, a coefficient  *)
(* of any length and an exponent, with the default context (precision 28,  *)
(* ROUND_HALF_EVEN).  A coefficient is its sequence of decimal digits,     *)
(* least significant first, without leading zeros: <<>> is 0 and           *)
(* <<5, 9, 9>> is 995.  Every arithmetic result is the exact result        *)
(* rounded to the precision of the context.                                *)
(***************************************************************************)
RECURSIVE Rev(_)
Rev(s) == IF s = <<>> THEN <<>> ELSE Append(Rev(Tail(s)), Head(s))

RECURSIVE NatTrim(_)
NatTrim(a) ==
    IF a /= <<>> /\ a[Len(a)] = 0 THEN NatTrim(SubSeq(a, 1, Len(a) - 1)) ELSE a

NatDigit(a, i) == IF i <= Len(a) THEN a[i] ELSE 0

\* the carry out of column k when the column values c (each the sum of the
\* digits or digit products of that column, negative when borrowing) are
\* reduced to digits
RECURSIVE CarryAt(_, _)
CarryAt(c, k) == IF k = 0 THEN 0 ELSE (c[k] + CarryAt(c, k - 1)) \div 10

NatCarry(c) == NatTrim([k \in 1..Len(c) |-> (c[k] + CarryAt(c, k - 1)) % 10])

NatAdd(a, b) ==
    NatCarry([k \in 1..((IF Len(a) >= Len(b) THEN Len(a) ELSE Len(b)) + 1) |->
                  NatDigit(a, k) + NatDigit(b, k)])

\* a - b for a >= b
NatSub(a, b) == NatCarry([k \in 1..Len(a) |-> a[k] - NatDigit(b, k)])

RECURSIVE NatLessFrom(_, _, _)
NatLessFrom(a, b, i) ==
    IF i = 0 THEN FALSE
    ELSE IF a[i] /= b[i] THEN a[i] < b[i] ELSE NatLessFrom(a, b, i - 1)

NatLess(a, b) ==
    IF Len(a) /= Len(b) THEN Len(a) < Len(b) ELSE NatLessFrom(a, b, Len(a))

\* a * 10^k
NatShift(a, k) == IF a = <<>> THEN <<>> ELSE [i \in 1..k |-> 0] \o a

\* the sum of a[i] * b[k + 1 - i]: column k of the long multiplication
RECURSIVE ColumnSum(_, _, _, _)
ColumnSum(a, b, k, i) ==
    IF i > Len(a) \/ i > k THEN 0
    ELSE a[i] * NatDigit(b, k + 1 - i) + ColumnSum(a, b, k, i + 1)

NatMul(a, b) ==
    NatCarry([k \in 1..(Len(a) + Len(b)) |-> ColumnSum(a, b, k, 1)])

BigDec(sign, coef, exp) == [sign |-> sign, coef |-> coef, exp |-> exp]

DECIMAL_PREC == 28

\* the coefficient without its k lowest digits, rounded: up tells whether the
\* dropped part rounds the kept part up
NatRoundedDrop(a, k, up) ==
    IF up THEN NatAdd(SubSeq(a, k + 1, Len(a)), <<1>>)
    ELSE SubSeq(a, k + 1, Len(a))

\* ROUND_HALF_EVEN on dropping the k lowest digits (1 <= k <= Len(a))
HalfEvenUp(a, k) ==
    \/ a[k] > 5
    \/ /\ a[k] = 5
       /\ \/ \E i \in 1..(k - 1) : a[i] /= 0
          \/ NatDigit(a, k + 1) % 2 = 1

\* ROUND_HALF_UP on dropping the k lowest digits (k >= 1)
HalfUpUp(a, k) == NatDigit(a, k) >= 5

\* Decimal._fix: round the exact result to the precision of the context
DecFix(d) ==
    IF Len(d.coef) <= DECIMAL_PREC THEN d
    ELSE LET k == Len(d.coef) - DECIMAL_PREC
             c == NatRoundedDrop(d.coef, k, HalfEvenUp(d.coef, k))
         IN  IF Len(c) > DECIMAL_PREC
             THEN BigDec(d.sign, Tail(c), d.exp + k + 1)
             ELSE BigDec(d.sign, c, d.exp + k)

\* the exact product and the exact sum
DecMulExact(x, y) ==
    BigDec((x.sign + y.sign) % 2, NatMul(x.coef, y.coef), x.exp + y.exp)

DecMul(x, y) == DecFix(DecMulExact(x, y))

DecNeg(x) == BigDec(1 - x.sign, x.coef, x.exp)

\* the coefficient of x at the smaller exponent e
Aligned(x, e) == NatShift(x.coef, x.exp - e)

DecAddAt(x, y, e) ==
    IF x.sign = y.sign
    THEN BigDec(x.sign, NatAdd(Aligned(x, e), Aligned(y, e)), e)
    ELSE IF Aligned(x, e) = Aligned(y, e) THEN BigDec(0, <<>>, e)
    ELSE IF NatLess(Aligned(x, e), Aligned(y, e))
         THEN BigDec(y.sign, NatSub(Aligned(y, e), Aligned(x, e)), e)
         ELSE BigDec(x.sign, NatSub(Aligned(x, e), Aligned(y, e)), e)

DecAddExact(x, y) == DecAddAt(x, y, IF x.exp <= y.exp THEN x.exp ELSE y.exp)

DecAdd(x, y) == DecFix(DecAddExact(x, y))

DecSub(x, y) == DecAdd(x, DecNeg(y))

\* Decimal._rescale(-2, ROUND_HALF_UP): the value at exponent -2
Rescale2(x) ==
    IF x.exp >= -2 THEN BigDec(x.sign, NatShift(x.coef, x.exp + 2), -2)
    ELSE IF -2 - x.exp > Len(x.coef) THEN BigDec(x.sign, <<>>, -2)
    ELSE BigDec(x.sign,
                NatTrim(NatRoundedDrop(x.coef, -2 - x.exp,
                                       HalfUpUp(x.coef, -2 - x.exp))), -2)

\* x.quantize(Decimal("0.01"), rounding=ROUND_HALF_UP): InvalidOperation
\* when the result has more digits than the precision of the context
DecQuantize2(x) ==
    IF x.coef = <<>> THEN Ok(BigDec(x.sign, <<>>, -2))
    ELSE IF Len(x.coef) + x.exp + 2 > DECIMAL_PREC \/ Len(Rescale2(x).coef) > DECIMAL_PREC
         THEN Raised("InvalidOperation")
    ELSE Ok(Rescale2(x))

DigitChars(a) == [i \in 1..Len(a) |-> Digits[a[Len(a) + 1 - i] + 1]]

\* str() of a Decimal with exponent -2
DecStr2(x) ==
    (IF x.sign = 1 THEN <<"-">> ELSE <<>>)
        \o (IF Len(x.coef) <= 2 THEN <<"0">>
            ELSE DigitChars(SubSeq(x.coef, 3, Len(x.coef))))
        \o <<".">>
        \o DigitChars([i \in 1..2 |-> NatDigit(x.coef, i)])

DigitSeq(s) == NatTrim(Rev([i \in 1..Len(s) |-> DigitVal(s[i])]))

ExpAt(s) == {i \in 1..Len(s) : s[i] \in {"e", "E"}}

\* the numeral [digits][.digits] without exponent part: coefficient and
\* number of decimals, {} when it is no numeral
PlainNumeral(u) ==
    IF AllDigits(u) THEN {<<DigitSeq(u), 0>>}
    ELSE IF Cardinality(DotAt(u)) = 1
         THEN LET k == CHOOSE i \in DotAt(u) : TRUE
                  ip == SubSeq(u, 1, k - 1)
                  fp == SubSeq(u, k + 1, Len(u))
              IN  IF (ip = <<>> \/ AllDigits(ip)) /\ (fp = <<>> \/ AllDigits(fp))
                     /\ ~(ip = <<>> /\ fp = <<>>)
                  THEN {<<DigitSeq(ip \o fp), Len(fp)>>}
                  ELSE {}
         ELSE {}

\* Decimal(st) for [sign] numeral [e|E [sign] digits]: {} when it raises
\* InvalidOperation (the constructor is exact).  The special texts NaN and
\* Infinity, which Decimal accepts, are not among the inputs of the model.
DecimalOfStr(st) ==
    LET u == Unsigned(st)
    IN  IF ExpAt(u) = {}
        THEN {BigDec(IF SignOf(st) < 0 THEN 1 ELSE 0, n[1], -n[2]) :
                  n \in PlainNumeral(u)}
        ELSE IF Cardinality(ExpAt(u)) = 1
        THEN LET k == CHOOSE i \in ExpAt(u) : TRUE
                 ep == SubSeq(u, k + 1, Len(u))
             IN  {BigDec(IF SignOf(st) < 0 THEN 1 ELSE 0, n[1], e - n[2]) :
                      n \in PlainNumeral(SubSeq(u, 1, k - 1)), e \in IntOfStr(ep)}
        ELSE {}

(***************************************************************************)
(* Order totals (northwind_compare.report_order_totals_sample)             *)
(*                                                                         *)
(* The source holds Orders and OrderDetails rows; the store holds, per     *)
(* OrderDetails object key "{pfx}:...:OrderDetails:{pk}", the hash fields  *)
(* the importer wrote, and per order id the members of the per-order       *)
(* index set.                                                              *)
(***************************************************************************)
_to_str(v) == IF v.t = "none" THEN <<>> ELSE ToStr(v)

\* _decimal(v): the Decimal, or the InvalidOperation Decimal(s) raises
_decimal(v) ==
    IF Strip(_to_str(v)) = <<>> THEN Ok(BigDec(0, <<>>, 0))
    ELSE IF DecimalOfStr(Strip(_to_str(v))) = {} THEN Raised("InvalidOperation")
    ELSE Ok(The(DecimalOfStr(Strip(_to_str(v)))))

_round_2(x) == DecQuantize2(x)

DecOne == BigDec(0, <<1>>, 0)

\* up * qty * (Decimal("1") - disc)
LineTotal(up, qty, disc) == DecMul(DecMul(up, qty), DecSub(DecOne, disc))

\* total = Decimal("0"); for rw in rows: total += up * qty * (1 - disc)
RECURSIVE SumLines(_, _, _)
SumLines(rows, k, total) ==
    IF k > Len(rows) THEN Ok(total)
    ELSE IF ~ (_decimal(rows[k].UnitPrice).ok /\ _decimal(rows[k].Quantity).ok
               /\ _decimal(rows[k].Discount).ok)
         THEN Raised("InvalidOperation")
         ELSE SumLines(rows, k + 1,
                  DecAdd(total, LineTotal(_decimal(rows[k].UnitPrice).val,
                                          _decimal(rows[k].Quantity).val,
                                          _decimal(rows[k].Discount).val)))

RoundedTotalOf(sum) == IF sum.ok THEN _round_2(sum.val) ELSE sum

\* the rounded total of the rows in the order they are read
OrderTotal(rows) == RoundedTotalOf(SumLines(rows, 1, BigDec(0, <<>>, 0)))

\* s.split(ch, 1): the part before and the part after the first ch
FirstAt(s, ch) ==
    IF \E i \in 1..Len(s) : s[i] = ch
    THEN CHOOSE i \in 1..Len(s) : s[i] = ch /\ \A j \in 1..(i - 1) : s[j] /= ch
    ELSE Len(s) + 1

BeforeFirst(s, ch) == SubSeq(s, 1, FirstAt(s, ch) - 1)

AfterFirst(s, ch) == SubSeq(s, FirstAt(s, ch) + 1, Len(s))

OrderDetailsToken == <<"O", "r", "d", "e", "r", "D", "e", "t", "a", "i", "l", "s">>

\* _row_pk for the primary key (OrderID, ProductID)
DetailPk(row) == NatToStr(row.OrderID) \o <<":">> \o NatToStr(row.ProductID)

ObjectName(row) == OrderDetailsToken \o <<":">> \o DetailPk(row)

DetailFields(row) ==
    [UnitPrice |-> Str(_to_str(row.UnitPrice)),
     Quantity |-> Str(_to_str(row.Quantity)),
     Discount |-> Str(_to_str(row.Discount))]

\* the rows loop of import_northwind for the table OrderDetails: HSET of the
\* object, SADD of its name to the index of pk.split(":", 1)[0]
ImportOrderDetailsRows(st, details) ==
    [obj |-> [pk \in DOMAIN st.obj \cup {DetailPk(details[i]) : i \in 1..Len(details)} |->
                 IF \E i \in 1..Len(details) : DetailPk(details[i]) = pk
                 THEN DetailFields(details[
                          CHOOSE i \in 1..Len(details) :
                              /\ DetailPk(details[i]) = pk
                              /\ \A j \in (i + 1)..Len(details) : DetailPk(details[j]) /= pk])
                 ELSE st.obj[pk]],
     idx |-> [o \in DOMAIN st.idx
                     \cup {BeforeFirst(DetailPk(details[i]), ":") : i \in 1..Len(details)} |->
                 (IF o \in DOMAIN st.idx THEN st.idx[o] ELSE {})
                     \cup {ObjectName(details[i]) :
                              i \in {j \in 1..Len(details) :
                                        BeforeFirst(DetailPk(details[j]), ":") = o}}]]

\* SELECT UnitPrice, Quantity, Discount FROM od_table WHERE OrderID = oid
SourceRowsOf(source, oid) ==
    SelectSeq(source.details, LAMBDA rw : NatToStr(rw.OrderID) = oid)

\* HMGET of the three fields of the object a member names; None for a
\* missing key or field
StoreRowOf(st, name) ==
    IF AfterFirst(name, ":") \in DOMAIN st.obj THEN st.obj[AfterFirst(name, ":")]
    ELSE [UnitPrice |-> NoneV, Quantity |-> NoneV, Discount |-> NoneV]

\* SMEMBERS returns the members in an order the store chooses
MemberOrders(S) == {s \in [1..Cardinality(S) -> S] : Range(s) = S}

MembersOf(st, oid) == IF oid \in DOMAIN st.idx THEN st.idx[oid] ELSE {}

TotalsEntry(oid, stt, rtt, diff) ==
    IF stt.ok /\ rtt.ok /\ diff.ok
    THEN Ok([order_id |-> oid, sqlite_total |-> DecStr2(stt.val),
             redis_total |-> DecStr2(rtt.val), diff |-> DecStr2(diff.val)])
    ELSE Raised("InvalidOperation")

TotalsEntryOf(oid, stt, rtt) ==
    TotalsEntry(oid, stt, rtt,
                IF stt.ok /\ rtt.ok THEN _round_2(DecSub(rtt.val, stt.val))
                ELSE Raised("InvalidOperation"))

TotalsDocument(entries) ==
    IF \A i \in 1..Len(entries) : entries[i].ok
    THEN Ok([i \in 1..Len(entries) |-> entries[i].val])
    ELSE Raised("InvalidOperation")

\* order_ids: the first limit order ids in ascending order
SampledOrders(source, limit) ==
    [i \in 1..Min(limit, Len(source.orders)) |-> NatToStr(source.orders[i])]

\* members[oid] is the sequence SMEMBERS returned for the index of oid
report_order_totals_sample(source, st, limit, members) ==
    IF limit <= 0 \/ limit > 100
    THEN ApiError("INVALID_INPUT", "limit out of range")
    ELSE TotalsDocument(
             [i \in 1..Len(SampledOrders(source, limit)) |->
                 TotalsEntryOf(SampledOrders(source, limit)[i],
                     OrderTotal(SourceRowsOf(source, SampledOrders(source, limit)[i])),
                     OrderTotal([k \in 1..Len(members[SampledOrders(source, limit)[i]]) |->
                                    StoreRowOf(st, members[SampledOrders(source, limit)[i]][k])]))])

\* SMEMBERS on the index of order i and HMGET on each member, then the
\* same for the orders after it
RECURSIVE OrderReadCommands(_, _, _)
OrderReadCommands(order_ids, members, i) ==
    IF i > Len(order_ids) THEN <<>>
    ELSE <<Cmd("SMEMBERS", <<"odidx", order_ids[i]>>)>>
             \o [k \in 1..Len(members[order_ids[i]]) |->
                    Cmd("HMGET", <<"obj", members[order_ids[i]][k]>>)]
             \o OrderReadCommands(order_ids, members, i + 1)

\* report_order_totals_sample: the commands of a run that reaches the end
\* of the store loop (a run that raises sends a prefix of them; limit out
\* of range raises before any)
report_order_totals_commands(source, limit, members) ==
    IF limit <= 0 \/ limit > 100 THEN <<>>
    ELSE OrderReadCommands(SampledOrders(source, limit), members, 1)

(***************************************************************************)
(* Specification TotalsSpec: one import of the OrderDetails rows, edits of *)
(* the store by other clients, and one report.                             *)
(***************************************************************************)
MaxDetailRows == 3

s1e25 == <<"1", "e", "+", "2", "5">>
sLongPrice ==
    <<"1", ".", "0", "0", "4", "9", "9", "9", "9", "9", "9", "9", "9", "9", "9",
      "9", "9", "9", "9", "9", "9", "9", "9", "9", "9", "9", "9", "9", "9", "9">>
sAbc == <<"a", "b", "c">>
s20 == <<"2", "0">>

\* UnitPrice, Quantity, Discount of the detail rows of the first order
DetailPool ==
    {<<Num(19995, 3), IntV(3), IntV(0)>>,
     <<Num(5, 3), IntV(1), IntV(0)>>,
     <<Str(s1e25), IntV(1), IntV(0)>>,
     <<Str(sLongPrice), IntV(1), IntV(0)>>,
     <<NoneV, IntV(3), Num(25, 2)>>,
     <<IntV(10), IntV(3), Num(25, 2)>>,
     <<Str(sAbc), IntV(1), IntV(0)>>}

DetailRow(oid, pid, cells) ==
    [OrderID |-> oid, ProductID |-> pid, UnitPrice |-> cells[1],
     Quantity |-> cells[2], Discount |-> cells[3]]

TotalsSource(cells) ==
    [orders |-> <<1, 2>>,
     details |-> [i \in 1..Len(cells) |-> DetailRow(1, i, cells[i])]
                     \o <<DetailRow(2, 1, <<Num(19995, 3), IntV(3), IntV(0)>>)>>]

ReportLimits == {0, 1, 20, 101}

TotalsInit ==
    /\ \E cells \in SeqsUpTo(DetailPool, MaxDetailRows) : tSrc = TotalsSource(cells)
    /\ tStore = [obj |-> <<>>, idx |-> <<>>]
    /\ tRes = NotRun
    /\ CodecIdle
    /\ CompileIdle
    /\ StoreIdle
    /\ MetaIdle
    /\ SchemaIdle

ImportOrderDetails ==
    /\ tRes = NotRun
    /\ tStore' = ImportOrderDetailsRows(tStore, tSrc.details)
    /\ UNCHANGED <<tSrc, tRes>>
    /\ UNCHANGED <<codecVars, compileVars, storeVars, metaVars, schemaVars>>

\* another client overwrites the UnitPrice of the first detail object
TotalsForeignHset ==
    /\ tRes = NotRun
    /\ <<"1", ":", "1">> \in DOMAIN tStore.obj
    /\ tStore' = [tStore EXCEPT !.obj[<<"1", ":", "1">>].UnitPrice = Str(s20)]
    /\ UNCHANGED <<tSrc, tRes>>
    /\ UNCHANGED <<codecVars, compileVars, storeVars, metaVars, schemaVars>>

ReportOrderTotalsSample ==
    /\ tRes = NotRun
    /\ \E limit \in ReportLimits :
       \E m1 \in MemberOrders(MembersOf(tStore, <<"1">>)) :
       \E m2 \in MemberOrders(MembersOf(tStore, <<"2">>)) :
       \E members \in {[o \in {<<"1">>, <<"2">>} |-> IF o = <<"1">> THEN m1 ELSE m2]} :
       \E r \in {report_order_totals_sample(tSrc, tStore, limit, members)} :
           /\ tRes' = [limit |-> limit, members |-> m1, res |-> r]
           /\ tStore' = TotalsAfter(tStore, report_order_totals_commands(tSrc, limit, members))
    /\ UNCHANGED tSrc
    /\ UNCHANGED <<codecVars, compileVars, storeVars, metaVars, schemaVars>>

(***************************************************************************)
(* Schema bit-profile northwind_meta_v0 (schema_meta.py)                   *)
(*                                                                         *)
(* A Python set of bit indices is a set; an optional value (int | None,    *)
(* str | None, bool | None) is the empty set for None and a singleton      *)
(* otherwise.  The names reported by the decoders are written as strings.  *)
(***************************************************************************)
\* Core type bits
BIT_IS_TABLE == 0
BIT_IS_COLUMN == 1
BIT_IS_FK_REL == 5
BIT_TABLE_META == 17
BIT_COLUMN_META == 18
BIT_REL_META == 19

\* Column facts
BIT_TYPE_TEXT == 256
BIT_TYPE_INTEGER == 257
BIT_TYPE_REAL == 258
BIT_TYPE_NUMERIC == 259
BIT_TYPE_DATETIME == 260
BIT_TYPE_BLOB == 261

BIT_NOT_NULL == 272
BIT_NULL_ALLOWED == 273
BIT_HAS_DEFAULT == 274
BIT_PART_OF_PK == 275
BIT_PART_OF_FK == 276
BIT_HAS_INDEX == 278

BIT_LEN_SMALL == 288
BIT_LEN_MEDIUM == 289
BIT_LEN_LARGE == 290
BIT_LEN_HUGE == 291

\* Relation facts
BIT_RELATION == 1024
BIT_CARD_1_1 == 1030
BIT_CARD_1_N == 1031
BIT_CHILD_MANDATORY == 1040
BIT_CHILD_OPTIONAL == 1041

BIT_DEL_CASCADE == 1050
BIT_DEL_SET_NULL == 1051
BIT_DEL_RESTRICT == 1052
BIT_UPD_CASCADE == 1053
BIT_UPD_SET_NULL == 1054
BIT_UPD_RESTRICT == 1055

\* (v or ""), for v a str or None
OrEmpty(v) == IF v = NoneV THEN <<>> ELSE v.s

\* x in t, for two strings
Contains(t, x) == \E i \in 1..(Len(t) - Len(x) + 1) : SubSeq(t, i, i + Len(x) - 1) = x

AnyIn(t, xs) == \E x \in xs : Contains(t, x)

_normalize_declared_type(declared_type) ==
    JoinWords(SplitWords(Upper(Strip(OrEmpty(declared_type))), 1, <<>>, <<>>), 1)

\* \s* and \d+ of _LEN_RE: the first position at or after i that holds no
\* space, no digit
RECURSIVE SkipSpaces(_, _)
SkipSpaces(t, i) == IF i <= Len(t) /\ IsSpace(t[i]) THEN SkipSpaces(t, i + 1) ELSE i

RECURSIVE SkipDigits(_, _)
SkipDigits(t, i) == IF i <= Len(t) /\ IsDigit(t[i]) THEN SkipDigits(t, i + 1) ELSE i

\* _LEN_RE matches at position i: "(", spaces, one digit or more, spaces, ")"
LenMatchAt(t, i) ==
    /\ t[i] = "("
    /\ SkipDigits(t, SkipSpaces(t, i + 1)) > SkipSpaces(t, i + 1)
    /\ SkipSpaces(t, SkipDigits(t, SkipSpaces(t, i + 1))) <= Len(t)
    /\ t[SkipSpaces(t, SkipDigits(t, SkipSpaces(t, i + 1)))] = ")"

\* int(m.group(1).strip()) for the leftmost match of _LEN_RE.search(t)
RECURSIVE _LEN_RE_search(_, _)
_LEN_RE_search(t, i) ==
    IF i > Len(t) THEN {}
    ELSE IF LenMatchAt(t, i)
         THEN {DigitsVal(SubSeq(t, SkipSpaces(t, i + 1),
                                SkipDigits(t, SkipSpaces(t, i + 1)) - 1), 0)}
         ELSE _LEN_RE_search(t, i + 1)

\* the mutant tests every family on its own instead of returning at the
\* first match
FamilyOf_every(t) ==
    (IF Contains(t, <<"I", "N", "T">>) THEN {BIT_TYPE_INTEGER} ELSE {})
        \cup (IF AnyIn(t, {<<"C", "H", "A", "R">>, <<"C", "L", "O", "B">>, <<"T", "E", "X", "T">>, <<"V", "A", "R", "C", "H", "A", "R">>}) THEN {BIT_TYPE_TEXT} ELSE {})
        \cup (IF AnyIn(t, {<<"R", "E", "A", "L">>, <<"F", "L", "O", "A">>, <<"D", "O", "U", "B">>}) THEN {BIT_TYPE_REAL} ELSE {})
        \cup (IF AnyIn(t, {<<"D", "A", "T", "E">>, <<"T", "I", "M", "E">>}) THEN {BIT_TYPE_DATETIME} ELSE {})
        \cup (IF Contains(t, <<"B", "L", "O", "B">>) THEN {BIT_TYPE_BLOB} ELSE {})
        \cup (IF AnyIn(t, {<<"N", "U", "M", "E", "R", "I", "C">>, <<"D", "E", "C", "I", "M", "A", "L">>, <<"B", "O", "O", "L", "E", "A", "N">>}) THEN {BIT_TYPE_NUMERIC} ELSE {})

FamilyOf(t) ==
    IF Contains(t, <<"I", "N", "T">>) THEN {BIT_TYPE_INTEGER}
    ELSE IF AnyIn(t, {<<"C", "H", "A", "R">>, <<"C", "L", "O", "B">>, <<"T", "E", "X", "T">>, <<"V", "A", "R", "C", "H", "A", "R">>}) THEN {BIT_TYPE_TEXT}
    ELSE IF AnyIn(t, {<<"R", "E", "A", "L">>, <<"F", "L", "O", "A">>, <<"D", "O", "U", "B">>}) THEN {BIT_TYPE_REAL}
    ELSE IF AnyIn(t, {<<"D", "A", "T", "E">>, <<"T", "I", "M", "E">>}) THEN {BIT_TYPE_DATETIME}
    ELSE IF Contains(t, <<"B", "L", "O", "B">>) THEN {BIT_TYPE_BLOB}
    ELSE IF AnyIn(t, {<<"N", "U", "M", "E", "R", "I", "C">>, <<"D", "E", "C", "I", "M", "A", "L">>, <<"B", "O", "O", "L", "E", "A", "N">>}) THEN {BIT_TYPE_NUMERIC}
    ELSE {}

\* the pair (family_bit, length)
sqlite_type_family_bits(declared_type) ==
    <<FamilyOf(_normalize_declared_type(declared_type)),
      _LEN_RE_search(_normalize_declared_type(declared_type), 1)>>

LengthBucket(n) ==
    IF n <= 64 THEN {BIT_LEN_SMALL}
    ELSE IF n <= 255 THEN {BIT_LEN_MEDIUM}
    ELSE IF n <= 4000 THEN {BIT_LEN_LARGE}
    ELSE {BIT_LEN_HUGE}

IsSized(t) == Contains(t, <<"(">>) /\ Contains(t, <<")">>)

sqlite_length_bucket_bits(declared_type, family_bit, length) ==
    IF family_bit \cap {BIT_TYPE_TEXT, BIT_TYPE_BLOB, BIT_TYPE_NUMERIC, BIT_TYPE_REAL,
                        BIT_TYPE_INTEGER, BIT_TYPE_DATETIME} = {}
    THEN {}
    ELSE IF length = {} /\ ~IsSized(_normalize_declared_type(declared_type))
         THEN (IF family_bit = {BIT_TYPE_TEXT} THEN {BIT_LEN_HUGE} ELSE {})
    ELSE IF length = {} THEN {BIT_LEN_HUGE}
    ELSE LengthBucket(The(length))

bits_for_table == {BIT_IS_TABLE, BIT_TABLE_META}

bits_for_column(declared_type, not_null, has_default, is_pk, is_fk, has_index) ==
    {BIT_IS_COLUMN, BIT_COLUMN_META}
        \cup sqlite_type_family_bits(declared_type)[1]
        \cup sqlite_length_bucket_bits(declared_type,
                 sqlite_type_family_bits(declared_type)[1],
                 sqlite_type_family_bits(declared_type)[2])
        \cup (IF not_null THEN {BIT_NOT_NULL} ELSE {BIT_NULL_ALLOWED})
        \cup (IF has_default THEN {BIT_HAS_DEFAULT} ELSE {})
        \cup (IF is_pk THEN {BIT_PART_OF_PK} ELSE {})
        \cup (IF is_fk THEN {BIT_PART_OF_FK} ELSE {})
        \cup (IF has_index THEN {BIT_HAS_INDEX} ELSE {})

\* (action or "").strip().upper()
ActionText(action) == Upper(Strip(OrEmpty(action)))

_is_restrict(action) ==
    \/ ActionText(action) = <<>>
    \/ ActionText(action) \in {<<"R", "E", "S", "T", "R", "I", "C", "T">>, <<"N", "O", " ", "A", "C", "T", "I", "O", "N">>, <<"S", "E", "T", " ", "D", "E", "F", "A", "U", "L", "T">>}

\* the if / elif / elif chain of bits_for_relation for one of the two actions
ActionBit(action, cascade, set_null, restrict) ==
    IF ActionText(action) = <<"C", "A", "S", "C", "A", "D", "E">> THEN {cascade}
    ELSE IF ActionText(action) = <<"S", "E", "T", " ", "N", "U", "L", "L">> THEN {set_null}
    ELSE IF _is_restrict(Str(ActionText(action))) THEN {restrict}
    ELSE {}

bits_for_relation(is_unique_child, child_mandatory, on_delete, on_update) ==
    {BIT_IS_FK_REL, BIT_REL_META, BIT_RELATION}
        \cup (IF is_unique_child THEN {BIT_CARD_1_1} ELSE {BIT_CARD_1_N})
        \cup (IF child_mandatory THEN {BIT_CHILD_MANDATORY} ELSE {BIT_CHILD_OPTIONAL})
        \cup ActionBit(on_delete, BIT_DEL_CASCADE, BIT_DEL_SET_NULL, BIT_DEL_RESTRICT)
        \cup ActionBit(on_update, BIT_UPD_CASCADE, BIT_UPD_SET_NULL, BIT_UPD_RESTRICT)

\* the mutant ends the chain with its last value instead of None
RECURSIVE FirstPresent_default(_, _, _)
FirstPresent_default(bits, order, i) ==
    IF i >= Len(order) THEN {order[Len(order)][2]}
    ELSE IF order[i][1] \in bits THEN {order[i][2]}
    ELSE FirstPresent_default(bits, order, i + 1)

\* a chain  a if A in bits else b if B in bits else ... else None
RECURSIVE FirstPresent(_, _, _)
FirstPresent(bits, order, i) ==
    IF i > Len(order) THEN {}
    ELSE IF order[i][1] \in bits THEN {order[i][2]}
    ELSE FirstPresent(bits, order, i + 1)

decode_column_meta(bits) ==
    [type_family |->
         FirstPresent(bits, <<<<BIT_TYPE_TEXT, "TEXT">>, <<BIT_TYPE_INTEGER, "INTEGER">>,
                              <<BIT_TYPE_REAL, "REAL">>, <<BIT_TYPE_NUMERIC, "NUMERIC">>,
                              <<BIT_TYPE_DATETIME, "DATETIME">>, <<BIT_TYPE_BLOB, "BLOB">>>>, 1),
     not_null |-> FirstPresent(bits, <<<<BIT_NOT_NULL, TRUE>>, <<BIT_NULL_ALLOWED, FALSE>>>>, 1),
     has_default |-> BIT_HAS_DEFAULT \in bits,
     is_pk |-> BIT_PART_OF_PK \in bits,
     is_fk |-> BIT_PART_OF_FK \in bits,
     has_index |-> BIT_HAS_INDEX \in bits,
     length_bucket |->
         FirstPresent(bits, <<<<BIT_LEN_SMALL, "small">>, <<BIT_LEN_MEDIUM, "medium">>,
                              <<BIT_LEN_LARGE, "large">>, <<BIT_LEN_HUGE, "huge">>>>, 1)]

decode_relation_meta(bits) ==
    [cardinality |-> FirstPresent(bits, <<<<BIT_CARD_1_1, "1:1">>, <<BIT_CARD_1_N, "1:N">>>>, 1),
     child_required |->
         FirstPresent(bits, <<<<BIT_CHILD_MANDATORY, TRUE>>, <<BIT_CHILD_OPTIONAL, FALSE>>>>, 1),
     on_delete |->
         FirstPresent(bits, <<<<BIT_DEL_CASCADE, "CASCADE">>, <<BIT_DEL_SET_NULL, "SET NULL">>,
                              <<BIT_DEL_RESTRICT, "RESTRICT">>>>, 1),
     on_update |->
         FirstPresent(bits, <<<<BIT_UPD_CASCADE, "CASCADE">>, <<BIT_UPD_SET_NULL, "SET NULL">>,
                              <<BIT_UPD_RESTRICT, "RESTRICT">>>>, 1)]

(***************************************************************************)
(* Specification SchemaSpec: one call of bits_for_table, bits_for_column   *)
(* or bits_for_relation, and one decoding of the set it returned.          *)
(***************************************************************************)
DeclaredTypes ==
    {NoneV,
     Str(<<"I", "N", "T", "E", "G", "E", "R">>),
     Str(<<"i", "n", "t">>),
     Str(<<"B", "I", "G", "I", "N", "T">>),
     Str(<<"P", "O", "I", "N", "T">>),
     Str(<<"v", "a", "r", "c", "h", "a", "r", "(", "4", "0", ")">>),
     Str(<<"n", "v", "a", "r", "c", "h", "a", "r", "(", " ", "3", "0", "0", " ", ")">>),
     Str(<<"V", "A", "R", "C", "H", "A", "R", "(", "2", "5", "5", ")">>),
     Str(<<"C", "H", "A", "R", "(", "6", "4", ")">>),
     Str(<<"c", "h", "a", "r", "(", "6", "5", ")">>),
     Str(<<"T", "E", "X", "T">>),
     Str(<<"t", "e", "x", "t", "(", "5", "0", "0", "0", ")">>),
     Str(<<"v", "a", "r", "c", "h", "a", "r", "(", ")">>),
     Str(<<"C", "L", "O", "B">>),
     Str(<<"D", "A", "T", "E", "T", "I", "M", "E">>),
     Str(<<"d", "a", "t", "e">>),
     Str(<<"T", "I", "M", "E", "S", "T", "A", "M", "P">>),
     Str(<<"B", "L", "O", "B">>),
     Str(<<"b", "l", "o", "b", "(", "4", "0", "0", "0", ")">>),
     Str(<<"N", "U", "M", "E", "R", "I", "C">>),
     Str(<<"d", "e", "c", "i", "m", "a", "l", "(", "1", "0", ",", "2", ")">>),
     Str(<<"D", "E", "C", "I", "M", "A", "L", "(", "5", ")">>),
     Str(<<"B", "O", "O", "L", "E", "A", "N">>),
     Str(<<" ", " ", "d", "o", "u", "b", "l", "e", " ", " ", " ", "p", "r", "e", "c", "i", "s", "i", "o", "n", " ">>),
     Str(<<"F", "L", "O", "A", "T", "(", "4", "0", "0", "1", ")">>),
     Str(<<"R", "E", "A", "L">>),
     Str(<<>>),
     Str(<<"X", "M", "L">>),
     Str(<<"m", "o", "n", "e", "y", "(", "8", ")">>),
     Str(<<"F", "L", "O", "A", "T", "I", "N", "G", " ", "P", "O", "I", "N", "T">>),
     Str(<<"t", "e", "x", "t", " ", "b", "l", "o", "b">>)}

ActionTexts ==
    {NoneV,
     Str(<<"C", "A", "S", "C", "A", "D", "E">>),
     Str(<<"c", "a", "s", "c", "a", "d", "e", " ">>),
     Str(<<"S", "E", "T", " ", "N", "U", "L", "L">>),
     Str(<<" ", "s", "e", "t", " ", "n", "u", "l", "l">>),
     Str(<<"R", "E", "S", "T", "R", "I", "C", "T">>),
     Str(<<"N", "O", " ", "A", "C", "T", "I", "O", "N">>),
     Str(<<"S", "E", "T", " ", "D", "E", "F", "A", "U", "L", "T">>),
     Str(<<>>),
     Str(<<"F", "O", "O">>),
     Str(<<"S", "E", "T", " ", " ", "N", "U", "L", "L">>)}

ColumnCall(declared_type, not_null, has_default, is_pk, is_fk, has_index) ==
    [kind |-> "column", declared_type |-> declared_type, not_null |-> not_null,
     has_default |-> has_default, is_pk |-> is_pk, is_fk |-> is_fk,
     has_index |-> has_index]

RelationCall(is_unique_child, child_mandatory, on_delete, on_update) ==
    [kind |-> "relation", is_unique_child |-> is_unique_child,
     child_mandatory |-> child_mandatory, on_delete |-> on_delete,
     on_update |-> on_update]

TableCall == [kind |-> "table"]

\* a flags_bin buffer found in the store under an element key, given by the
\* set of bits decode_flags_bin reads from it: written under this profile,
\* under the row profile, by another writer, or partly
StoredBitPool == {0, 256, 259, 261, 272, 273, 289, 291, 1031, 1041, 1051, 1052, 1063, 4095}

StoredCall(bits) == [kind |-> "stored", bits |-> bits]

SchemaInit ==
    /\ \/ sCall = TableCall
       \/ \E bits \in SUBSET StoredBitPool : sCall = StoredCall(bits)
       \/ \E t \in DeclaredTypes : \E f \in [1..5 -> BOOLEAN] :
              sCall = ColumnCall(t, f[1], f[2], f[3], f[4], f[5])
       \/ \E u, m \in BOOLEAN : \E od, ou \in ActionTexts :
              sCall = RelationCall(u, m, od, ou)
    /\ sBits = NotRun
    /\ sMeta = NotRun
    /\ CodecIdle
    /\ CompileIdle
    /\ StoreIdle
    /\ MetaIdle
    /\ TotalsIdle

BitsForTable ==
    /\ sCall.kind = "table"
    /\ sBits = NotRun
    /\ sBits' = Ok(bits_for_table)
    /\ UNCHANGED <<sCall, sMeta>>
    /\ UNCHANGED <<codecVars, compileVars, storeVars, metaVars, totalsVars>>

BitsForColumn ==
    /\ sCall.kind = "column"
    /\ sBits = NotRun
    /\ sBits' = Ok(bits_for_column(sCall.declared_type, sCall.not_null, sCall.has_default,
                                   sCall.is_pk, sCall.is_fk, sCall.has_index))
    /\ UNCHANGED <<sCall, sMeta>>
    /\ UNCHANGED <<codecVars, compileVars, storeVars, metaVars, totalsVars>>

BitsForRelation ==
    /\ sCall.kind = "relation"
    /\ sBits = NotRun
    /\ sBits' = Ok(bits_for_relation(sCall.is_unique_child, sCall.child_mandatory,
                                     sCall.on_delete, sCall.on_update))
    /\ UNCHANGED <<sCall, sMeta>>
    /\ UNCHANGED <<codecVars, compileVars, storeVars, metaVars, totalsVars>>

\* bits = set(decode_flags_bin(bytes(flags_bin))) for a stored buffer
ReadStoredFlags ==
    /\ sCall.kind = "stored"
    /\ sBits = NotRun
    /\ sBits' = Ok(sCall.bits)
    /\ UNCHANGED <<sCall, sMeta>>
    /\ UNCHANGED <<codecVars, compileVars, storeVars, metaVars, totalsVars>>

DecodeColumnMeta ==
    /\ sBits.ok
    /\ sMeta = NotRun
    /\ sMeta' = Ok([decoder |-> "column", meta |-> decode_column_meta(sBits.val)])
    /\ UNCHANGED <<sCall, sBits>>
    /\ UNCHANGED <<codecVars, compileVars, storeVars, metaVars, totalsVars>>

DecodeRelationMeta ==
    /\ sBits.ok
    /\ sMeta = NotRun
    /\ sMeta' = Ok([decoder |-> "relation", meta |-> decode_relation_meta(sBits.val)])
    /\ UNCHANGED <<sCall, sBits>>
    /\ UNCHANGED <<codecVars, compileVars, storeVars, metaVars, totalsVars>>

(***************************************************************************)
(* Specifications                                                          *)
(***************************************************************************)
CodecNext == Encode \/ Decode \/ DecodeResized \/ IntFromBits

CodecSpec == CodecInit /\ [][CodecNext]_vars

CompileNext == Compile \/ EncodeRow

CompileSpec == CompileInit /\ [][CompileNext]_vars

StoreNext == IngestDataRows \/ ResetDataIngest \/ CompareSqlVsBitsets \/ ForeignWrite

StoreSpec == StoreInit /\ [][StoreNext]_vars

MetaNext == ImportNorthwindReset \/ ImportNorthwind \/ MetaForeignWrite

MetaSpec == MetaInit /\ [][MetaNext]_vars

TotalsNext == ImportOrderDetails \/ TotalsForeignHset \/ ReportOrderTotalsSample

TotalsSpec == TotalsInit /\ [][TotalsNext]_vars

SchemaNext ==
    \/ BitsForTable \/ BitsForColumn \/ BitsForRelation \/ ReadStoredFlags
    \/ DecodeColumnMeta \/ DecodeRelationMeta

SchemaSpec == SchemaInit /\ [][SchemaNext]_vars

(***************************************************************************)
(* Specification ReportSpec: the evaluation and reporting functions on a   *)
(* prefix that ingestion and import have populated and that other clients  *)
(* have written to.                                                        *)
(***************************************************************************)
EmptyStore == [k \in KeyUniverse |-> Absent]

\* the row keys and registry before the reports: nothing, or what
\* ingest_data_rows of every table leaves
IngestedStates(source) ==
    {[store |-> EmptyStore, reg |-> {}],
     ingest_data_rows(source, EmptyStore, {}, <<>>, TRUE, 0).sr}

\* the importer's keys before the reports: what import_northwind of the
\* full source leaves, with a key of another client
ImportedStates ==
    {[import_northwind_body(MetaSourceFull, {}, {}, {}, <<>>)
         EXCEPT !.keys = @ \cup {<<"all", "user", "alice">>}]}

ReportDetailCells ==
    {<<<<Num(19995, 3), IntV(3), IntV(0)>>, <<IntV(10), IntV(3), Num(25, 2)>>>>,
     <<<<Str(sAbc), IntV(1), IntV(0)>>>>}

ReportInit ==
    /\ \E c \in CustomerChoices[3] \ {<<>>} :
       \E sr \in IngestedStates(Source(<<Customer(idA, Str(sGermany), Str(sBerlin))>> \o c)) :
       \E w \in {Absent, Text(<<"a", "b", "c">>)} :
           /\ src = Source(<<Customer(idA, Str(sGermany), Str(sBerlin))>> \o c)
           /\ store = [sr.store EXCEPT ![<<"Customers", idZ>>] = w]
           /\ reg = sr.reg
    /\ last = NoOp
    /\ log = NoOp
    /\ \E m \in ImportedStates :
           /\ mKeys = m.keys
           /\ mImportReg = m.import_reg
           /\ mSchemaReg = m.schema_reg
           /\ mWrote = m.wrote
    /\ mLast = [op |-> "none"]
    /\ \E cells \in ReportDetailCells :
           /\ tSrc = TotalsSource(cells)
           /\ tStore = ImportOrderDetailsRows([obj |-> <<>>, idx |-> <<>>],
                                              TotalsSource(cells).details)
    /\ tRes = NotRun
    /\ CodecIdle
    /\ CompileIdle
    /\ SchemaIdle

ReportNext == CompareSqlVsBitsets \/ DataInfo \/ ReportRowCounts \/ ReportOrderTotalsSample

ReportSpec == ReportInit /\ [][ReportNext]_vars

(***************************************************************************)
(* Properties                                                              *)
(***************************************************************************)
ValidBits(bits) == \A i \in 1..Len(bits) : 0 <= bits[i] /\ bits[i] <= MAX_BIT

\* C1: for every collection S of bits in [0,4095], encode_flags_bin(S) is
\* exactly 512 bytes long and decode_flags_bin of it returns exactly the
\* elements of S, each once and nothing else.
C1_RoundTrip ==
    /\ (cPc \in {"encoded", "decoded"} /\ ValidBits(cBits)) =>
          cBuf.ok /\ Len(cBuf.val) = 512
    /\ (cPc = "decoded" /\ ValidBits(cBits)) =>
          /\ cOut.ok
          /\ Range(cOut.val) = Range(cBits)
          /\ Len(cOut.val) = Cardinality(Range(cBits))

C1_Witness ==
    /\ cPc = "decoded"
    /\ ValidBits(cBits)
    /\ {0, 4095} \subseteq Range(cBits)
    /\ Len(cBits) = 3
    /\ cOut.ok

\* --- helpers for the compiler properties
Compiled == qRes /= NotRun

SingleCond(col) == Len(qConds) = 1 /\ IsDict(qConds[1]) /\ qConds[1].column = col

EffOp(raw) == IF raw.op = "" THEN "=" ELSE raw.op

Inequalities == {"<", "<=", ">", ">="}

PriceCondCompiled ==
    /\ Compiled
    /\ qTable = "Products"
    /\ SingleCond("UnitPrice")
    /\ EffOp(qConds[1]) \in AllOps
    /\ _parse_decimal(qConds[1].value) /= {}

PriceThreshold == The(_parse_decimal(qConds[1].value))

\* C2: subset-safety for price.  A price bucket has its bit in the mask
\* compiled for UnitPrice op v (op an inequality) only if every price of
\* that bucket satisfies p op v; so no row whose price fails the predicate
\* satisfies the compiled clause.
C2_PriceSubsetSafe ==
    (PriceCondCompiled /\ EffOp(qConds[1]) \in Inequalities /\ qRes.ok) =>
        LET c == qRes.val.out[1]
            op == EffOp(qConds[1])
        IN  /\ \A p \in PriceGrid :
                   (_price_bucket_bit({p}) \subseteq c.mask) => DecSat(p, op, PriceThreshold)
            /\ (rBits.ok /\ _parse_decimal(RowGet(rRow, "UnitPrice")) /= {}) =>
                   (~DecSat(The(_parse_decimal(RowGet(rRow, "UnitPrice"))), op, PriceThreshold)
                        => ~ClauseHolds(NonNeg(rBits.val), c))

\* v lies strictly between the bounds of one bucket of the compiler's table
StrictlyInsidePriceBucket(v) ==
    \E k \in 1..Len(PriceBuckets) :
        /\ DecLt(The(PriceBuckets[k].lo), v)
        /\ PriceBuckets[k].hi /= {} => DecLt(v, The(PriceBuckets[k].hi))

\* C3: a UnitPrice inequality whose threshold lies strictly inside a
\* bucket's interior is refused with an input error; no clause is returned.
C3_InteriorRefused ==
    (PriceCondCompiled /\ EffOp(qConds[1]) \in Inequalities
        /\ StrictlyInsidePriceBucket(PriceThreshold)) =>
        (~qRes.ok /\ qRes.error = "INVALID_INPUT")

IsPriceGe20 ==
    /\ PriceCondCompiled
    /\ EffOp(qConds[1]) = ">="
    /\ DecEq(PriceThreshold, Dec(20, 0))

\* C4: UnitPrice >= 20 compiles to exactly one clause, of kind ANY, whose
\* mask is exactly the bits of [20,50) and >=50 (1062 and 1063).
C4_PriceGe20 ==
    IsPriceGe20 =>
        /\ qRes.ok
        /\ Len(qRes.val.out) = 1
        /\ qRes.val.out[1].kind = "any"
        /\ qRes.val.out[1].mask = {1062, 1063}
        /\ qRes.val.out[1].mask = {BIT_PROD_PRICE_20_50, BIT_PROD_PRICE_GE_50}
        /\ qRes.val.out[1].mask \cap {BIT_PROD_PRICE_LT_10, BIT_PROD_PRICE_10_20} = {}

C4_Witness == IsPriceGe20 /\ qRes.ok /\ qConds[1].value.t = "str"

BucketedCondCompiled ==
    /\ Compiled
    /\ \/ qTable = "Products" /\ SingleCond("UnitPrice") /\ _parse_decimal(qConds[1].value) /= {}
       \/ qTable = "OrderDetails" /\ SingleCond("Quantity") /\ _parse_int(qConds[1].value) /= {}
    /\ EffOp(qConds[1]) \in AllOps

\* the buckets the compiler's loop selects for the condition
QualifyingBuckets ==
    IF qTable = "Products"
    THEN PriceAllowedLoop(EffOp(qConds[1]), The(_parse_decimal(qConds[1].value)), 1, <<>>)
    ELSE QtyAllowedLoop(EffOp(qConds[1]), The(_parse_int(qConds[1].value)), 1, <<>>)

\* C5: a UnitPrice or Quantity condition that compiles has a non-empty
\* mask, kind ALL iff the mask has exactly one bit and ANY iff it has two or
\* more; when no bucket qualifies the compile fails with an input error.
C5_KindAndMask ==
    BucketedCondCompiled =>
        /\ qRes.ok =>
              LET c == qRes.val.out[1]
              IN  /\ Len(qRes.val.out) = 1
                  /\ c.mask /= {}
                  /\ c.kind \in {"all", "any"}
                  /\ c.kind = "all" <=> Cardinality(c.mask) = 1
                  /\ c.kind = "any" <=> Cardinality(c.mask) >= 2
        /\ QualifyingBuckets = <<>> => (~qRes.ok /\ qRes.error = "INVALID_INPUT")

C5_Witness ==
    /\ BucketedCondCompiled
    /\ qTable = "OrderDetails"
    /\ EffOp(qConds[1]) = ">="
    /\ qRes.ok
    /\ qRes.val.out[1].kind = "all"

EqualityColumns == {"Country", "City", "CategoryID", "UnitPrice", "OrderYear", "Quantity"}

EqualityCondCompiled ==
    /\ Compiled
    /\ Len(qConds) = 1
    /\ IsDict(qConds[1])
    /\ qConds[1].column \in EqualityColumns
    /\ EffOp(qConds[1]) = "="
    /\ qRes.ok

\* the bits encode_row_bits sets for a row of table t whose column col
\* holds v (for the derived column OrderYear: whose order date is in year v)
BucketOfValue(t, col, v) ==
    IF col = "OrderYear" THEN _order_year_bit(_parse_int(v))
    ELSE encode_row_bits(t, [x \in {col} |-> v]).val

\* the bucket of the row's own value in that column
BucketOfRow(t, col, row) ==
    IF col = "OrderYear" THEN _order_year_bit(_parse_date(RowGet(row, "OrderDate")))
    ELSE encode_row_bits(t, [x \in {col} |-> RowGet(row, col)]).val

\* C6: an equality condition that compiles yields one ALL clause over
\* exactly one bit, the bit encode_row_bits sets for a row holding the
\* compared value; a stored row satisfies the clause iff its value lies in
\* the same bucket as the compared value.
C6_EqualityBucket ==
    EqualityCondCompiled =>
        LET c == qRes.val.out[1]
            col == qConds[1].column
        IN  /\ Len(qRes.val.out) = 1
            /\ c.kind = "all"
            /\ Len(c.bits) = 1
            /\ c.mask = {c.bits[1]}
            /\ c.mask = BucketOfValue(qTable, col, qConds[1].value)
            /\ rBits.ok =>
                  (ClauseHolds(NonNeg(rBits.val), c)
                      <=> BucketOfRow(qTable, col, rRow) = BucketOfValue(qTable, col, qConds[1].value))

C6_Witness ==
    /\ EqualityCondCompiled
    /\ qConds[1].column = "UnitPrice"
    /\ rBits.ok
    /\ ClauseHolds(NonNeg(rBits.val), qRes.val.out[1])
    /\ RowGet(rRow, "UnitPrice") /= qConds[1].value

\* --- helpers for the store properties
CompareReturned == last.op = "compare" /\ last.res.ok

\* the stored value is a decimal integer, after trimming
ParsesAsInteger(v) ==
    \/ v.t = "dec"
    \/ v.t = "text" /\ IntOfStr(Strip(v.s)) /= {}

\* (x & mask) == mask for ALL, (x & mask) != 0 for ANY
ClauseSatisfied(x, c) ==
    /\ c.kind = "all" => AndMask(x, c.mask) = c.mask
    /\ c.kind /= "all" => AndMask(x, c.mask) /= {}

\* the arguments alone make the call fail
CompareArgsRefused ==
    \/ last.table \notin SUPPORTED_TABLE_TOKENS
    \/ last.predicate_type /= "and"
    \/ last.conditions = <<>>
    \/ ~bit_conditions_for(last.table, last.conditions).ok

\* C7: compare_sql_vs_bitsets puts a scanned row identifier in the bitset
\* result iff its stored value parses as a decimal integer x and every
\* compiled clause holds on x; a missing, empty or non-integer stored value
\* is skipped and never makes the call fail.
C7_ScanRetains ==
    /\ CompareReturned =>
          LET d == last.res.val
              scannedIds == {d.data_keys[j][2] : j \in 1..Len(d.data_keys)} \ {<<>>}
          IN  /\ \A j \in 1..Len(d.data_keys) :
                     LET key == d.data_keys[j]
                     IN  key[2] /= <<>> =>
                            (key[2] \in Range(d.bitset_ids)
                                <=> /\ ParsesAsInteger(store[key])
                                    /\ \A i \in 1..Len(d.bit_conds) :
                                           ClauseSatisfied(The(StoredInt(store[key])),
                                                           d.bit_conds[i]))
              /\ Range(d.bitset_ids) \subseteq scannedIds
    /\ (last.op = "compare" /\ ~last.res.ok) =>
          (last.res.error = "INVALID_INPUT" /\ CompareArgsRefused)

C7_Witness ==
    /\ CompareReturned
    /\ last.table = "Customers"
    /\ Len(last.res.val.bit_conds) = 2
    /\ \E j \in 1..Len(last.res.val.data_keys) :
           /\ store[last.res.val.data_keys[j]].t = "text"
           /\ ~ParsesAsInteger(store[last.res.val.data_keys[j]])
    /\ \E j \in 1..Len(last.res.val.data_keys) :
           /\ ParsesAsInteger(store[last.res.val.data_keys[j]])
           /\ last.res.val.data_keys[j][2] \notin Range(last.res.val.bitset_ids)
    /\ Len(last.res.val.bitset_ids) >= 1

\* source customers whose Country is Germany
KnownGermanyCount ==
    Cardinality({i \in 1..Len(src.Customers) : src.Customers[i].Country = Str(sGermany)})

\* an ingest with reset of all Customers rows was the last write to the
\* store, it left no Customers key that it did not register, and the last
\* call compared Country = "Germany" on Customers with the default ceiling
GermanyAuditRun ==
    /\ log.op = "ingest"
    /\ log.reset
    /\ log.max_rows_per_table = 0
    /\ log.res.ok
    /\ "Customers" \in Range(log.res.val.requested)
    /\ \A k \in DOMAIN store : (k[1] = "Customers" /\ store[k] /= Absent) => k \in reg
    /\ last.op = "compare"
    /\ last.table = "Customers"
    /\ last.predicate_type = "and"
    /\ last.conditions = QGermany
    /\ last.max_scan_keys = DEFAULT_MAX_SCAN_KEYS

\* C8: after ingesting all Customers rows of a source (with reset) and with
\* no later change to source or store, comparing Country = "Germany" on
\* Customers reports sql.count = bitset.count = the number of source
\* customers whose country is Germany, with empty only_sql and only_bitset.
C8_GermanyAudit ==
    GermanyAuditRun =>
        /\ last.res.ok
        /\ last.res.val.results.sql.count = KnownGermanyCount
        /\ last.res.val.results.bitset.count = KnownGermanyCount
        /\ last.res.val.results.only_sql.count = 0
        /\ last.res.val.results.only_sql.ids = <<>>
        /\ last.res.val.results.only_bitset.count = 0
        /\ last.res.val.results.only_bitset.ids = <<>>

\* ids holds the first min(|S|, max(0, n)) elements of S in sorted order
SortedFirst(ids, S, n) ==
    /\ Len(ids) = (IF n <= 0 THEN 0 ELSE IF Cardinality(S) <= n THEN Cardinality(S) ELSE n)
    /\ Range(ids) \subseteq S
    /\ \A i \in 1..(Len(ids) - 1) : StrLess(ids[i], ids[i + 1])
    /\ \A x \in S \ Range(ids) : \A i \in 1..Len(ids) : StrLess(ids[i], x)

Reported(part, S) ==
    /\ part.count = Cardinality(S)
    /\ SortedFirst(part.ids, S, last.sample)

\* C9: in the result of compare_sql_vs_bitsets the intersection, only_sql
\* and only_bitset parts are sqlIds \cap bitsetIds, sqlIds \ bitsetIds and
\* bitsetIds \ sqlIds; each count is the full set size and each id list the
\* first `sample` ids in sorted order; a mismatch between the two sides is
\* returned in the document and never an error.
C9_ResultSets ==
    /\ CompareReturned =>
          LET r == last.res.val.results
              sqlIds == Range(last.res.val.sql_ids)
              bitsetIds == Range(last.res.val.bitset_ids)
          IN  /\ Reported(r.sql, sqlIds)
              /\ Reported(r.bitset, bitsetIds)
              /\ Reported(r.intersection, sqlIds \cap bitsetIds)
              /\ Reported(r.only_sql, sqlIds \ bitsetIds)
              /\ Reported(r.only_bitset, bitsetIds \ sqlIds)
              /\ r.intersection.count + r.only_sql.count + r.only_bitset.count
                     = Cardinality(sqlIds \cup bitsetIds)
    /\ (last.op = "compare" /\ ~CompareArgsRefused) => last.res.ok

C9_Witness ==
    /\ CompareReturned
    /\ last.sample = 1
    /\ last.res.val.results.only_sql.count >= 1
    /\ last.res.val.results.only_bitset.count >= 2
    /\ Len(last.res.val.results.only_bitset.ids) = 1
    /\ last.res.val.results.intersection.count >= 1

\* C10: reset_data_ingest deletes exactly the members of the registry and
\* the registry itself; every other key, one under the data prefix that was
\* never registered included, keeps its value.
C10_ResetFrame ==
    [][last'.op = "reset" =>
          /\ \A k \in DOMAIN store :
                 /\ k \in reg => store'[k] = Absent
                 /\ k \notin reg => store'[k] = store[k]
          /\ DOMAIN store' = DOMAIN store
          /\ reg' = {}]_vars

C10_Witness ==
    /\ last.op = "reset"
    /\ last.res.val.deleted >= 1
    /\ store[<<"Customers", idZ>>].t = "dec"
    /\ store[<<"Customers", idA>>] = Absent

\* C11: an import run with reset=true deletes exactly the keys recorded in
\* the importer's registries: a key matching "{prefix}:element:tbl:*",
\* "{prefix}:element:col:*" or "{prefix}:element:rel:*" that the importer
\* never wrote and never registered is still present after the reset.
C11_ResetKeepsUnregistered ==
    [][ImportNorthwindReset =>
          \A k \in mKeys :
              (/\ MatchesElementPattern(k)
               /\ k \notin mWrote
               /\ Tail(k) \notin mSchemaReg) => k \in mKeys']_vars

\* --- helpers for the order totals properties
Reported20 == tRes /= NotRun /\ tRes.limit \in 1..100

AllNumeric(rows) ==
    \A k \in 1..Len(rows) :
        /\ _decimal(rows[k].UnitPrice).ok
        /\ _decimal(rows[k].Quantity).ok
        /\ _decimal(rows[k].Discount).ok

\* the store rows an order's index reaches, in some order
IndexedRowsOf(oid) ==
    LET m == CHOOSE s \in MemberOrders(MembersOf(tStore, oid)) : TRUE
    IN  [k \in 1..Len(m) |-> StoreRowOf(tStore, m[k])]

\* the exact sum of unitPrice * quantity * (1 - discount), no rounding
RECURSIVE ExactSum(_, _)
ExactSum(rows, k) ==
    IF k > Len(rows) THEN BigDec(0, <<>>, 0)
    ELSE DecAddExact(
             DecMulExact(DecMulExact(_decimal(rows[k].UnitPrice).val,
                                     _decimal(rows[k].Quantity).val),
                         DecAddExact(DecOne, DecNeg(_decimal(rows[k].Discount).val))),
             ExactSum(rows, k + 1))

\* that sum rounded once to 2 decimals, half up, as a string
ExactRounded(rows) == DecStr2(Rescale2(ExactSum(rows, 1)))

SampleRow == <<Num(19995, 3), IntV(3), IntV(0)>>

\* C12: on each side the reported total is the exact decimal sum of
\* unitPrice * quantity * (1 - discount) over the order's detail rows, rounded
\* once to 2 decimals half up; the single row 19.995 x 3 x (1 - 0) gives
\* "59.99" on both sides.
C12_ExactHalfUp ==
    (/\ Reported20
     /\ AllNumeric(tSrc.details)
     /\ \A oid \in {<<"1">>, <<"2">>} : AllNumeric(IndexedRowsOf(oid))) =>
        /\ tRes.res.ok
        /\ \A i \in 1..Len(tRes.res.val) :
               LET e == tRes.res.val[i]
               IN  /\ e.sqlite_total = ExactRounded(SourceRowsOf(tSrc, e.order_id))
                   /\ e.redis_total = ExactRounded(IndexedRowsOf(e.order_id))
                   /\ (Len(SourceRowsOf(tSrc, e.order_id)) = 1
                        /\ SourceRowsOf(tSrc, e.order_id)[1].UnitPrice = SampleRow[1]
                        /\ SourceRowsOf(tSrc, e.order_id)[1].Quantity = SampleRow[2]
                        /\ SourceRowsOf(tSrc, e.order_id)[1].Discount = SampleRow[3])
                       => e.sqlite_total = <<"5", "9", ".", "9", "9">>

\* the detail rows the index of an order reaches are the source's detail
\* rows of that order, field by field
IdenticalRows(oid) ==
    /\ MembersOf(tStore, oid)
           = {ObjectName(SourceRowsOf(tSrc, oid)[k]) :
                  k \in 1..Len(SourceRowsOf(tSrc, oid))}
    /\ \A k \in 1..Len(SourceRowsOf(tSrc, oid)) :
           StoreRowOf(tStore, ObjectName(SourceRowsOf(tSrc, oid)[k]))
               = DetailFields(SourceRowsOf(tSrc, oid)[k])

\* C13: for every sampled order whose detail rows reachable through the
\* per-order index are identical to the source's detail rows of that order,
\* sqlite_total and redis_total are identical strings and diff is "0.00".
C13_IdenticalRowsAgree ==
    (Reported20 /\ tRes.res.ok) =>
        \A i \in 1..Len(tRes.res.val) :
            IdenticalRows(tRes.res.val[i].order_id) =>
                /\ tRes.res.val[i].sqlite_total = tRes.res.val[i].redis_total
                /\ tRes.res.val[i].diff = <<"0", ".", "0", "0">>

\* the bit of every named fact of the schema profile northwind_meta_v0
SchemaFactBits ==
    <<BIT_IS_TABLE, BIT_IS_COLUMN, BIT_IS_FK_REL, BIT_TABLE_META, BIT_COLUMN_META,
      BIT_REL_META, BIT_TYPE_TEXT, BIT_TYPE_INTEGER, BIT_TYPE_REAL, BIT_TYPE_NUMERIC,
      BIT_TYPE_DATETIME, BIT_TYPE_BLOB, BIT_NOT_NULL, BIT_NULL_ALLOWED, BIT_HAS_DEFAULT,
      BIT_PART_OF_PK, BIT_PART_OF_FK, BIT_HAS_INDEX, BIT_LEN_SMALL, BIT_LEN_MEDIUM,
      BIT_LEN_LARGE, BIT_LEN_HUGE, BIT_RELATION, BIT_CARD_1_1, BIT_CARD_1_N,
      BIT_CHILD_MANDATORY, BIT_CHILD_OPTIONAL, BIT_DEL_CASCADE, BIT_DEL_SET_NULL,
      BIT_DEL_RESTRICT, BIT_UPD_CASCADE, BIT_UPD_SET_NULL, BIT_UPD_RESTRICT>>

\* the bit of every fact of the row profile northwind_data_v1: the country
\* and city buckets, the category ids 1..32 as the encoders place them, the
\* price, year and quantity buckets and the discount flag
RowFactBits ==
    <<BIT_CUST_COUNTRY_USA, BIT_CUST_COUNTRY_UK, BIT_CUST_COUNTRY_GERMANY,
      BIT_CUST_COUNTRY_FRANCE, BIT_CUST_COUNTRY_OTHER,
      BIT_CUST_CITY_LONDON, BIT_CUST_CITY_PARIS, BIT_CUST_CITY_BERLIN,
      BIT_CUST_CITY_SEATTLE, BIT_CUST_CITY_MEXICO_DF>>
        \o [id \in 1..32 |-> CategoryBit({id})[1]]
        \o <<BIT_PROD_PRICE_LT_10, BIT_PROD_PRICE_10_20, BIT_PROD_PRICE_20_50,
             BIT_PROD_PRICE_GE_50,
             BIT_ORD_YEAR_1996, BIT_ORD_YEAR_1997, BIT_ORD_YEAR_1998, BIT_ORD_YEAR_OTHER,
             BIT_OD_QTY_LT_5, BIT_OD_QTY_5_10, BIT_OD_QTY_11_20, BIT_OD_QTY_GT_20,
             BIT_OD_DISCOUNT_GT_0>>

PairwiseDistinct(s) == \A i, j \in 1..Len(s) : i /= j => s[i] /= s[j]

\* the number of facts bits_for_column asserts for a call
ColumnFactCount(call) ==
    3 + Cardinality(sqlite_type_family_bits(call.declared_type)[1])
      + Cardinality(sqlite_length_bucket_bits(call.declared_type,
                        sqlite_type_family_bits(call.declared_type)[1],
                        sqlite_type_family_bits(call.declared_type)[2]))
      + Cardinality({f \in {"has_default", "is_pk", "is_fk", "has_index"} : call[f]})

\* C14: within the schema profile no two named facts share a bit index, and
\* within the row profile no two of the country buckets, city buckets,
\* category ids 1..32, price buckets, year buckets, quantity buckets and the
\* discount flag share a bit index; so a set returned by bits_for_column
\* holds one bit for each fact it asserts and only bits of the profile.
C14_Disjointness ==
    /\ PairwiseDistinct(SchemaFactBits)
    /\ PairwiseDistinct(RowFactBits)
    /\ \A i \in 1..Len(SchemaFactBits) : SchemaFactBits[i] \in 0..MAX_BIT
    /\ \A i \in 1..Len(RowFactBits) : RowFactBits[i] \in 0..MAX_BIT
    /\ (sBits.ok /\ sCall.kind = "column") =>
           /\ Cardinality(sBits.val) = ColumnFactCount(sCall)
           /\ sBits.val \subseteq Range(SchemaFactBits)

\* a column call that asserted nine facts, each on a bit of its own
C14_Witness ==
    /\ sBits.ok
    /\ sCall.kind = "column"
    /\ ColumnFactCount(sCall) = 9
    /\ Cardinality(sBits.val) = 9
    /\ Len(SchemaFactBits) = 33
    /\ Len(RowFactBits) = 55

\* C15: for every collection S of bits in [0,4095] the integer
\* _int_from_bits(S) and the 512 bytes encode_flags_bin(S) hold the same
\* bits: bit i of the integer is set exactly when bit (i mod 8) of byte
\* 511 - (i div 8) is set, which is the unsigned big-endian value of the
\* buffer.
C15_SerializationsAgree ==
    (ValidBits(cBits) /\ cPc \in {"encoded", "decoded"} /\ cInt /= NotRun) =>
        /\ cInt.ok
        /\ cBuf.ok
        /\ Len(cBuf.val) = FLAGS_LEN
        /\ \A i \in 0..MAX_BIT :
               i \in cInt.val <=> BitAnd1(cBuf.val[(511 - (i \div 8)) + 1], i % 8)

\* bits 0 and 4095, one of them given twice, in both serializations
C15_Witness ==
    /\ cBits = <<4095, 0, 4095>>
    /\ cPc = "encoded"
    /\ cInt = Ok({0, 4095})
    /\ cBuf.ok
    /\ cBuf.val[1] = 128
    /\ cBuf.val[FLAGS_LEN] = 1

\* C16: when any element of the input is outside [0,4095], encode_flags_bin
\* and _int_from_bits both fail with INVALID_BIT, whatever valid bits came
\* before it: no buffer and no integer is returned, so nothing is decoded.
C16_InvalidBit ==
    ~ValidBits(cBits) =>
        /\ cPc /= "start" => cBuf = ApiError("INVALID_BIT", "bit must be 0..4095")
        /\ cInt /= NotRun => cInt = ApiError("INVALID_BIT", "bit must be 0..4095")
        /\ cOut = NotRun
        /\ cPc \in {"start", "encoded"}

\* two valid bits followed by 4096, refused by both functions
C16_Witness ==
    /\ cBits = <<0, 4095, 4096>>
    /\ cPc = "encoded"
    /\ ~cBuf.ok
    /\ cBuf.error = "INVALID_BIT"
    /\ ~cInt.ok
    /\ cInt.error = "INVALID_BIT"

\* C17: decode_flags_bin fails with INVALID_FLAGS for every buffer whose
\* length is not 512 bytes, shorter or longer, and returns no bit list.
C17_InvalidFlags ==
    (cOut /= NotRun /\ Len(cBuf.val) /= 512) =>
        cOut = ApiError("INVALID_FLAGS", "flags_bin must be 512 bytes")

\* a 513-byte buffer with bit 0 set in its last byte, refused
C17_Witness ==
    /\ cPc = "resized"
    /\ Len(cBuf.val) = 513
    /\ cBuf.val[513] = 0
    /\ cBuf.val[512] = 1
    /\ ~cOut.ok
    /\ cOut.error = "INVALID_FLAGS"

\* the six type-family bits and the family each one stands for
FamilyBits ==
    {BIT_TYPE_TEXT, BIT_TYPE_INTEGER, BIT_TYPE_REAL, BIT_TYPE_NUMERIC, BIT_TYPE_DATETIME,
     BIT_TYPE_BLOB}

FamilyName(b) ==
    CASE b = 256 -> "TEXT"
      [] b = 257 -> "INTEGER"
      [] b = 258 -> "REAL"
      [] b = 259 -> "NUMERIC"
      [] b = 260 -> "DATETIME"
      [] b = 261 -> "BLOB"

\* C18: for every declared type and every combination of the five boolean
\* flags, the set returned by bits_for_column holds at most one of the six
\* type-family bits 256..261, and decode_column_meta applied to that set
\* reports exactly that family, or None when no family bit is set.
C18_FamilyExclusive ==
    (sCall.kind = "column" /\ sBits.ok) =>
        /\ Cardinality(sBits.val \cap 256..261) <= 1
        /\ (sMeta.ok /\ sMeta.val.decoder = "column") =>
               sMeta.val.meta.type_family = {FamilyName(b) : b \in sBits.val \cap FamilyBits}

\* "FLOATING POINT" names two families; INTEGER alone is set and decoded
C18_Witness ==
    /\ sCall.kind = "column"
    /\ sCall.declared_type =
           Str(<<"F", "L", "O", "A", "T", "I", "N", "G", " ", "P", "O", "I", "N", "T">>)
    /\ sBits.ok
    /\ sBits.val \cap FamilyBits = {BIT_TYPE_INTEGER}
    /\ sMeta.ok
    /\ sMeta.val.decoder = "column"
    /\ sMeta.val.meta.type_family = {"INTEGER"}

\* a column of no known family: no family bit, decoded as None
C18_WitnessNone ==
    /\ sCall.kind = "column"
    /\ sCall.declared_type = Str(<<"X", "M", "L">>)
    /\ sBits.ok
    /\ sBits.val \cap FamilyBits = {}
    /\ sMeta.ok
    /\ sMeta.val.decoder = "column"
    /\ sMeta.val.meta.type_family = {}

\* the four price buckets as <<lower bound, upper bound, bit>>; the last
\* bucket has no upper bound
PriceBucketTable == <<<<0, 10, 1060>>, <<10, 20, 1061>>, <<20, 50, 1062>>, <<50, -1, 1063>>>>

InPriceBucket(p, k) ==
    /\ (k > 1 => DecLe(Dec(PriceBucketTable[k][1], 0), p))
    /\ (k < 4 => DecLt(p, Dec(PriceBucketTable[k][2], 0)))

\* the price of the row handed to the encoder, when it has one
RowPrice == _parse_decimal(RowGet(rRow, "UnitPrice"))

\* C19: for every price p >= 0, encode_product_row sets exactly one of the
\* four price bits, the one of <10, [10,20), [20,50), >=50 that contains p;
\* the boundaries 10, 20 and 50 belong to the upper bucket.
C19_PriceBucketTotal ==
    (qTable = "Products" /\ rBits /= NotRun /\ RowPrice /= {}) =>
        \A p \in RowPrice :
            DecLe(Dec(0, 0), p) =>
                /\ rBits.ok
                /\ rBits.val \cap 1060..1063 =
                       {PriceBucketTable[k][3] : k \in {j \in 1..4 : InPriceBucket(p, j)}}
                /\ Cardinality(rBits.val \cap 1060..1063) = 1

\* a product priced exactly 50 is encoded in the bucket >= 50
C19_Witness ==
    /\ qTable = "Products"
    /\ RowGet(rRow, "UnitPrice") = Num(500, 1)
    /\ rBits.ok
    /\ rBits.val \cap 1060..1063 = {BIT_PROD_PRICE_GE_50}

\* the bit an action stands for: CASCADE and SET NULL (after trimming and
\* upper-casing, as the code reads them) their own bit, anything else RESTRICT
ExpectedActionBit(action, cascade, set_null, restrict) ==
    IF ActionText(action) = <<"C", "A", "S", "C", "A", "D", "E">> THEN cascade
    ELSE IF ActionText(action) = <<"S", "E", "T", " ", "N", "U", "L", "L">> THEN set_null
    ELSE restrict

\* C20: for every pair of on-delete and on-update action strings,
\* bits_for_relation sets exactly one on-delete bit and exactly one on-update
\* bit: CASCADE gives the CASCADE bit, SET NULL the SET NULL bit, and every
\* other value, absent or unrecognized, the RESTRICT bit.
C20_ActionBits ==
    (sCall.kind = "relation" /\ sBits.ok) =>
        /\ sBits.val \cap 1050..1052 = {ExpectedActionBit(sCall.on_delete, 1050, 1051, 1052)}
        /\ sBits.val \cap 1053..1055 = {ExpectedActionBit(sCall.on_update, 1053, 1054, 1055)}

\* the four length-bucket bits
LenBits == {BIT_LEN_SMALL, BIT_LEN_MEDIUM, BIT_LEN_LARGE, BIT_LEN_HUGE}

\* the declared type of a column call carries no parenthesized integer (N)
NoDeclaredLength(call) == sqlite_type_family_bits(call.declared_type)[2] = {}

\* C21: when the declared type carries no parenthesized integer length (N),
\* bits_for_column sets the length bucket "huge" for a TEXT-family column and
\* no length-bucket bit for a column of any other family.
C21_NoLengthBucket ==
    (sCall.kind = "column" /\ sBits.ok /\ NoDeclaredLength(sCall)) =>
        sBits.val \cap LenBits =
            (IF BIT_TYPE_TEXT \in sBits.val THEN {BIT_LEN_HUGE} ELSE {})

\* the same, for declared types without any parenthesis: the part of the
\* statement the code does satisfy
C21_Unparenthesized ==
    (sCall.kind = "column" /\ sBits.ok
        /\ ~IsSized(_normalize_declared_type(sCall.declared_type))) =>
        sBits.val \cap LenBits =
            (IF BIT_TYPE_TEXT \in sBits.val THEN {BIT_LEN_HUGE} ELSE {})

\* the value a decoder reports for one group of bits: None when no bit of
\* the group is present, otherwise a value whose bit is present
GroupAnswer(bits, answer, group) ==
    /\ Cardinality(answer) <= 1
    /\ answer = {} <=> bits \cap {g[1] : g \in group} = {}
    /\ \A a \in answer : \E g \in group : g[2] = a /\ g[1] \in bits

\* C22: decode_column_meta and decode_relation_meta return a result for
\* every set of bits in [0,4095]: the empty set, sets with several
\* conflicting bits of one group, sets written under another profile.  A
\* fact with no bit present is None, or false for the boolean flags.
C22_DecodersTotal ==
    (sBits.ok /\ sMeta /= NotRun) =>
        /\ sMeta.ok
        /\ sMeta.val.decoder = "column" =>
               /\ GroupAnswer(sBits.val, sMeta.val.meta.type_family,
                      {<<256, "TEXT">>, <<257, "INTEGER">>, <<258, "REAL">>,
                       <<259, "NUMERIC">>, <<260, "DATETIME">>, <<261, "BLOB">>})
               /\ GroupAnswer(sBits.val, sMeta.val.meta.not_null,
                      {<<272, TRUE>>, <<273, FALSE>>})
               /\ GroupAnswer(sBits.val, sMeta.val.meta.length_bucket,
                      {<<288, "small">>, <<289, "medium">>, <<290, "large">>,
                       <<291, "huge">>})
               /\ sMeta.val.meta.has_default = (274 \in sBits.val)
               /\ sMeta.val.meta.is_pk = (275 \in sBits.val)
               /\ sMeta.val.meta.is_fk = (276 \in sBits.val)
               /\ sMeta.val.meta.has_index = (278 \in sBits.val)
        /\ sMeta.val.decoder = "relation" =>
               /\ GroupAnswer(sBits.val, sMeta.val.meta.cardinality,
                      {<<1030, "1:1">>, <<1031, "1:N">>})
               /\ GroupAnswer(sBits.val, sMeta.val.meta.child_required,
                      {<<1040, TRUE>>, <<1041, FALSE>>})
               /\ GroupAnswer(sBits.val, sMeta.val.meta.on_delete,
                      {<<1050, "CASCADE">>, <<1051, "SET NULL">>, <<1052, "RESTRICT">>})
               /\ GroupAnswer(sBits.val, sMeta.val.meta.on_update,
                      {<<1053, "CASCADE">>, <<1054, "SET NULL">>, <<1055, "RESTRICT">>})

\* a stored set with both nullability bits, two length buckets and bits of
\* the row profile, decoded as a column; no family bit, so the family is None
C22_Witness ==
    /\ sCall.kind = "stored"
    /\ sBits = Ok({272, 273, 289, 291, 1063, 4095})
    /\ sMeta.ok
    /\ sMeta.val.decoder = "column"
    /\ sMeta.val.meta.type_family = {}
    /\ sMeta.val.meta.not_null = {TRUE}
    /\ sMeta.val.meta.length_bucket = {"medium"}
    /\ ~sMeta.val.meta.has_default

\* the country bucket of a normalized country name: the fixed table, else OTHER
ExpectedCountryBit(name) ==
    IF name \in {<<"U", "S", "A">>, <<"U", ".", "S", ".", "A", ".">>} THEN 256
    ELSE IF name \in {<<"U", "K">>, <<"U", ".", "K", ".">>,
                      <<"U", "N", "I", "T", "E", "D", " ", "K", "I", "N", "G", "D", "O", "M">>}
         THEN 257
    ELSE IF name = <<"G", "E", "R", "M", "A", "N", "Y">> THEN 258
    ELSE IF name = <<"F", "R", "A", "N", "C", "E">> THEN 259
    ELSE 260

\* the city bucket of a normalized city name, if the fixed table has one
ExpectedCityBits(name) ==
    IF name = <<"L", "O", "N", "D", "O", "N">> THEN {264}
    ELSE IF name = <<"P", "A", "R", "I", "S">> THEN {265}
    ELSE IF name = <<"B", "E", "R", "L", "I", "N">> THEN {266}
    ELSE IF name = <<"S", "E", "A", "T", "T", "L", "E">> THEN {267}
    ELSE IF name \in {<<"M", "É", "X", "I", "C", "O", " ", "D", ".", "F", ".">>,
                      <<"M", "E", "X", "I", "C", "O", " ", "D", ".", "F", ".">>}
         THEN {268}
    ELSE {}

\* C23: encode_customer_row gives every Customers row exactly one country
\* bit, the enumerated bucket when its normalized Country matches the fixed
\* table and the OTHER bit otherwise, and at most one city bit, set only when
\* the normalized City matches the fixed table.
C23_CustomerBits ==
    (qTable = "Customers" /\ rBits /= NotRun) =>
        /\ rBits.ok
        /\ rBits.val \cap 256..260 =
               {ExpectedCountryBit(_norm_upper(RowGet(rRow, "Country")))}
        /\ rBits.val \cap 264..268 = ExpectedCityBits(_norm_upper(RowGet(rRow, "City")))

\* the same for the rows whose Country is not empty after normalization: the
\* part of the statement the code does satisfy
C23_NamedCountry ==
    (qTable = "Customers" /\ rBits /= NotRun /\ _norm(RowGet(rRow, "Country")) /= <<>>) =>
        /\ rBits.ok
        /\ rBits.val \cap 256..260 =
               {ExpectedCountryBit(_norm_upper(RowGet(rRow, "Country")))}
        /\ rBits.val \cap 264..268 = ExpectedCityBits(_norm_upper(RowGet(rRow, "City")))

\* the (table, column, op) triples the compiler has a branch for
SupportedTriples ==
    {<<"Customers", "Country", "=">>, <<"Customers", "City", "=">>,
     <<"Products", "CategoryID", "=">>, <<"Categories", "CategoryID", "=">>,
     <<"Orders", "OrderYear", "=">>}
        \cup {<<"Products", "UnitPrice", op>> : op \in {"=", "<", "<=", ">", ">="}}
        \cup {<<"OrderDetails", "Quantity", op>> : op \in {"=", "<", "<=", ">", ">="}}
        \cup {<<"OrderDetails", "Discount", op>> : op \in {"=", ">", ">="}}

\* the operator of a condition; a missing operator stands for "="
OpOf(raw) == IF raw.op = "" THEN "=" ELSE raw.op

\* condition k names a column and one of the five operators, and the
\* compiler has no branch for its triple
RejectedTriple(k) ==
    /\ IsDict(qConds[k])
    /\ qConds[k].column /= ""
    /\ OpOf(qConds[k]) \in {"=", "<", "<=", ">", ">="}
    /\ <<qTable, qConds[k].column, OpOf(qConds[k])>> \notin SupportedTriples

\* every condition before k compiles on its own
EarlierValid(k) ==
    \A j \in 1..(k - 1) : ~IsDict(qConds[j]) \/ bit_conditions_for(qTable, <<qConds[j]>>).ok

\* C24: bit_conditions_for fails with an input error naming the rejected
\* table, column and operator for every (table, column, op) triple outside
\* the supported dimensions, and fails for an unsupported table; no clause
\* list is returned even when earlier conditions of the list were valid.
C24_RejectedTriple ==
    qRes /= NotRun =>
        /\ qTable \notin {"Customers", "Orders", "OrderDetails", "Products", "Categories"} =>
               /\ ~qRes.ok
               /\ qRes.error = "INVALID_INPUT"
        /\ qTable \in {"Customers", "Orders", "OrderDetails", "Products", "Categories"} =>
               \A k \in 1..Len(qConds) :
                   RejectedTriple(k) =>
                       /\ ~qRes.ok
                       /\ qRes.error = "INVALID_INPUT"
                       /\ EarlierValid(k) =>
                              /\ "details" \in DOMAIN qRes
                              /\ qRes.details = [table |-> qTable,
                                                 column |-> qConds[k].column,
                                                 op |-> OpOf(qConds[k])]

\* a valid CategoryID condition followed by a condition on ProductName: the
\* call fails and names Products, ProductName, "="
C24_Witness ==
    /\ qTable = "Products"
    /\ Len(qConds) = 2
    /\ bit_conditions_for(qTable, <<qConds[1]>>).ok
    /\ RejectedTriple(2)
    /\ ~qRes.ok
    /\ qRes.error = "INVALID_INPUT"
    /\ "details" \in DOMAIN qRes
    /\ qRes.details = [table |-> "Products", column |-> "ProductName", op |-> "="]

\* the stored row keys of the table of the last comparison
StoredKeysOfLast == MatchingKeys(store, last.table)

\* C25: compare_sql_vs_bitsets never reads more than max_scan_keys stored
\* row keys for one comparison, and when the table has more stored keys than
\* the ceiling the document reports data_keys_scanned equal to max_scan_keys.
C25_ScanCeiling ==
    (last.op = "compare" /\ last.res.ok) =>
        /\ Len(last.res.val.data_keys) <= last.max_scan_keys
        /\ last.res.val.scan.data_keys_scanned = Len(last.res.val.data_keys)
        /\ last.res.val.scan.max_scan_keys = last.max_scan_keys
        /\ Cardinality(StoredKeysOfLast) > last.max_scan_keys =>
               last.res.val.scan.data_keys_scanned = last.max_scan_keys

\* the same for a ceiling of at least 1: the part of the statement the code
\* does satisfy
C25_PositiveCeiling ==
    (last.op = "compare" /\ last.res.ok /\ last.max_scan_keys >= 1) =>
        /\ Len(last.res.val.data_keys) <= last.max_scan_keys
        /\ last.res.val.scan.data_keys_scanned = Len(last.res.val.data_keys)
        /\ last.res.val.scan.max_scan_keys = last.max_scan_keys
        /\ Cardinality(StoredKeysOfLast) > last.max_scan_keys =>
               last.res.val.scan.data_keys_scanned = last.max_scan_keys

\* a truncated scan: two stored Customers keys, a ceiling of 1, one key read
C25_TruncatedScan ==
    /\ last.op = "compare"
    /\ last.res.ok
    /\ last.max_scan_keys = 1
    /\ Cardinality(StoredKeysOfLast) >= 2
    /\ last.res.val.scan.data_keys_scanned = 1

QtyCondCompiled ==
    /\ Compiled
    /\ qTable = "OrderDetails"
    /\ SingleCond("Quantity")
    /\ EffOp(qConds[1]) \in AllOps
    /\ _parse_int(qConds[1].value) /= {}

QtyThreshold == The(_parse_int(qConds[1].value))

IntSat(n, op, v) ==
    CASE op = "=" -> n = v
      [] op = "<" -> n < v
      [] op = "<=" -> n <= v
      [] op = ">" -> n > v
      [] op = ">=" -> n >= v

\* C26: subset-safety for quantity.  A quantity bucket (<5, [5,10], [11,20],
\* >20) has its bit in the mask compiled for Quantity op q (op an
\* inequality) only if every integer quantity of that bucket satisfies the
\* predicate; so no stored detail row whose quantity fails the predicate
\* satisfies the compiled clause.
C26_QtySubsetSafe ==
    (QtyCondCompiled /\ EffOp(qConds[1]) \in Inequalities /\ qRes.ok) =>
        /\ \A n \in 0..MaxQty :
               (_qty_bucket_bit({n}) \subseteq qRes.val.out[1].mask)
                   => IntSat(n, EffOp(qConds[1]), QtyThreshold)
        /\ (rBits.ok /\ _parse_int(RowGet(rRow, "Quantity")) /= {}) =>
               (~IntSat(The(_parse_int(RowGet(rRow, "Quantity"))), EffOp(qConds[1]),
                        QtyThreshold)
                    => ~ClauseHolds(NonNeg(rBits.val), qRes.val.out[1]))

DiscCondCompiled ==
    /\ Compiled
    /\ qTable = "OrderDetails"
    /\ SingleCond("Discount")
    /\ EffOp(qConds[1]) \in AllOps

MeansDiscountPositive ==
    /\ EffOp(qConds[1]) = ">"
    /\ _parse_decimal(qConds[1].value) /= {}
    /\ DecEq(The(_parse_decimal(qConds[1].value)), Dec(0, 0))

\* C27: only Discount > 0 is supported.  A Discount condition on
\* OrderDetails compiles, to an ALL clause over the discount>0 bit, only
\* when it means Discount > 0; every other operator and threshold on
\* Discount is rejected with an input error.
C27_OnlyDiscountPositive ==
    DiscCondCompiled =>
        IF MeansDiscountPositive
        THEN qRes.ok => qRes.val.out = <<Clause("all", <<BIT_OD_DISCOUNT_GT_0>>)>>
        ELSE ~qRes.ok /\ qRes.error = "INVALID_INPUT"

\* keys of the prefix no other client writes in this model: a value present
\* under one of them was written by ingest_data_rows
IngestOwnedKeys == KeyUniverse \ {w.key : w \in ForeignWrites}

WrittenRowKeys == {k \in IngestOwnedKeys : store[k] /= Absent}

\* C28: registry invariant.  After any sequence of completed
\* ingest_data_rows and reset_data_ingest calls, the row keys written by
\* ingestion and still present in the store are exactly the members of the
\* data_bits registry set; no written row key is missing from the registry.
C28_RegistryInvariant == WrittenRowKeys = reg

C28_Witness ==
    /\ last.op = "ingest"
    /\ last.res.ok
    /\ ~last.reset
    /\ Cardinality(reg) >= 3
    /\ \E k \in KeyUniverse \ IngestOwnedKeys : store[k] /= Absent

\* the tables a call reads: the supported ones among those requested
RequestedTables(tables) ==
    Filter(IF tables = <<>> THEN SUPPORTED_TABLE_LIST ELSE tables, SUPPORTED_TABLE_TOKENS)

\* keys of the rows a run reads from the source: per requested table every
\* row, or the first max_rows_per_table rows when that limit is positive
KeysOfRowsRead(tables, max_rows_per_table) ==
    UNION {{<<t, Strip(ToStr(RowGet(src[t][i], PK_COLUMN[t])))>> :
               i \in {j \in 1..Len(src[t]) :
                         max_rows_per_table > 0 => j <= max_rows_per_table}} :
           t \in Range(RequestedTables(tables))}

IngestWithResetCompleted == last.op = "ingest" /\ last.reset /\ last.res.ok

\* C29: after ingest_data_rows with reset = true completes, the stored row
\* keys written by ingestion are exactly the keys of the rows read from the
\* requested source tables in this run (at most max_rows_per_table per
\* table when the limit is positive); no row key of an earlier ingestion
\* survives, whatever table it belongs to.
C29_ResetSupersedes ==
    IngestWithResetCompleted =>
        /\ WrittenRowKeys = KeysOfRowsRead(last.tables, last.max_rows_per_table)
        /\ reg = KeysOfRowsRead(last.tables, last.max_rows_per_table)

C29_Witness ==
    /\ IngestWithResetCompleted
    /\ last.tables = <<"Products">>
    /\ last.max_rows_per_table = 1
    /\ WrittenRowKeys = {<<"Products", <<"1">>>>}
    /\ store[<<"Customers", idZ>>] /= Absent

ReadOnlyCall ==
    CompareSqlVsBitsets \/ DataInfo \/ ReportRowCounts \/ ReportOrderTotalsSample

\* C30: evaluation and reporting are read-only.  A call of
\* compare_sql_vs_bitsets, data_info, report_row_counts or
\* report_order_totals_sample leaves every store key, every stored value
\* and every registry and index set as it was, whether it returns a result
\* or raises.
C30_ReadOnly ==
    [][ReadOnlyCall => UNCHANGED <<store, reg, mKeys, mImportReg, mSchemaReg, tStore>>]_vars

C30_Witness ==
    /\ last.op = "compare"
    /\ last.res.ok
    /\ last.res.val.scan.data_keys_scanned >= 2
    /\ reg /= {}
    /\ mLast.op = "report_row_counts"
    /\ mKeys /= {}
    /\ tRes /= NotRun
    /\ ~tRes.res.ok
    /\ DOMAIN tStore.obj /= {}

C30_WitnessRefused ==
    /\ last.op = "compare"
    /\ ~last.res.ok
    /\ reg /= {}
    /\ tRes /= NotRun
    /\ tRes.res.ok
    /\ Len(tRes.res.val) = 2
    /\ DOMAIN tStore.idx /= {}

====
